---- MODULE Spec2Model ----
(***************************************************************************)
(* The swing-trading journal: the App component's trade ledger, its        *)
(* persisted snapshot, the trade form, the exit form, deletion and the two *)
(* bulk imports (broker, spreadsheet), modelled as a state machine.        *)
(*                                                                         *)
(* Conventions.                                                            *)
(*  - An optional field of a Trade (exitDate?, exitPrice?, pnl?, isWin?)   *)
(*    is a set: {} when the field is undefined, {v} when it holds v.       *)
(*  - Monetary amounts are integers (hundredths of the currency unit), so  *)
(*    170.50 is 17050.                                                     *)
(*  - Trade fields that no operation below reads or computes from          *)
(*    (mindset, stopLoss, takeProfit, chartImage) are not carried.         *)
(*  - A React state update, the render that follows it and the effects of  *)
(*    that render (the persist effect) are one step.                       *)
(*  - The two forms are modal overlays (fixed inset-0, z-50): while one is *)
(*    open the journal's buttons behind it cannot be clicked.  Navigation  *)
(*    between views changes nothing the ledger operations read and is not  *)
(*    modelled here.                                                       *)
(*  - The draft a form holds is the user's input: a submit takes the draft *)
(*    as a parameter, drawn from every draft that handleChange can build   *)
(*    from the loaded one with the bounded input values.                   *)
(***************************************************************************)
EXTENDS Integers, Sequences, FiniteSets, TLC

VARIABLES
    trades,          \* App: const [trades, setTrades] = useState<Trade[]>([])
    stored,          \* localStorage['swing-trades'], as the JSON value written
    isModalOpen,     \* App: isModalOpen
    tradeToEdit,     \* App: tradeToEdit (Trade | null), {} for null
    isExitModalOpen, \* App: isExitModalOpen
    isImporting,     \* App: isImporting
    inflight,        \* the import request awaiting its response
    importBase,      \* history: the ledger when the import in flight was started
    now,             \* the clock read by new Date(); every read is a later instant
    ops,             \* the number of operations completed so far
    last,            \* history: the operation that just completed and its outcome
    liveData,        \* JournalView: liveData, ticker -> price; {} for null
    csvString,       \* the text handleDownloadCsv last put in the download
    tradeDraft,      \* TradeModal: trade, the draft of the trade form
    exitForm,        \* ExitTradeModal: selectedTradeId, exitDate, exitPrice, notes
    profileDraft,    \* ProfileModal: profile, the draft of the profile form
    userProfile,     \* App: userProfile
    storedProfile,   \* localStorage['user-profile'], {} when nothing is stored
    isProfileModalOpen, \* App: isProfileModalOpen
    isFetchingLivePrices, \* JournalView: isFetchingLivePrices
    priceRequests,   \* the getLivePrices calls awaiting their answer, in call order
    effectPending,   \* the state update whose render's polling effect has yet to
                     \* run: "none" when the effect of every such render has run
    renderedTrades,  \* the trades prop of the render whose polling effect ran last
    intervals,       \* the number of setInterval timers of JournalView that are set
    lastFetch,       \* history: the last call or answer of getLivePrices
    debounceTimers,  \* TradeModal: the setTimeout timers of the ticker search
    effectTicker,    \* the trade.ticker the ticker-search effect ran last for
    quiet,           \* the time since trade.ticker changed last, up to the delay
    lastLookup,      \* history: the last searchTickerSymbols call
    sheet,           \* the remote Trades sheet, columns A to L: its rows from row 1
    hasSpreadsheet,  \* localStorage holds the id of a spreadsheet
    isSyncing,       \* JournalView: isSyncing
    syncCall,        \* the syncTradesToSheet call in progress: {} when there is none
    lastSync,        \* history: the syncTradesToSheet call that ended last
    startupPc,       \* App's startup: what runs next, "done" once it is over
    startupQueue,    \* the setTrades updates the effects have queued
    strictMode,      \* React runs the mount effects twice (StrictMode, development)
    storedBefore     \* history: the snapshot stored before the App started

\* the state of JournalView and its output
journalVars == <<liveData, csvString>>

\* the state of the views that the ledger's operations and the forms leave
\* alone: JournalView's, and what is followed of the world around the App
liveVars ==
    <<isFetchingLivePrices, priceRequests, effectPending, renderedTrades,
      intervals, lastFetch>>

debounceVars == <<debounceTimers, effectTicker, quiet, lastLookup>>

syncVars == <<sheet, hasSpreadsheet, isSyncing, syncCall, lastSync>>

startupVars == <<startupPc, startupQueue, strictMode, storedBefore>>

auxVars == <<liveVars, debounceVars, syncVars, startupVars>>

\* what the live-price steps, the ticker-search steps and the steps of a
\* sync leave alone of it
otherThanLive == <<debounceVars, syncVars, startupVars>>
otherThanDebounce == <<liveVars, syncVars, startupVars>>
otherThanSync == <<liveVars, debounceVars, startupVars>>
otherThanStartup == <<liveVars, debounceVars, syncVars>>

viewVars == <<journalVars, auxVars>>

\* the drafts of the three forms, and the profile
formVars ==
    <<tradeDraft, exitForm, profileDraft, userProfile, storedProfile, isProfileModalOpen>>

vars == <<trades, stored, isModalOpen, tradeToEdit, isExitModalOpen,
          isImporting, inflight, importBase, now, ops, last, liveData, csvString,
          tradeDraft, exitForm, profileDraft, userProfile, storedProfile, isProfileModalOpen,
          isFetchingLivePrices, priceRequests, effectPending, renderedTrades,
          intervals, lastFetch, debounceTimers, effectTicker, quiet, lastLookup,
          sheet, hasSpreadsheet, isSyncing, syncCall, lastSync,
          startupPc, startupQueue, strictMode, storedBefore>>

----------------------------------------------------------------------------
(* Bounds of the model *)

\* the number of operations (submits, deletions, import requests and
\* responses) in a run
MaxOps == 4

----------------------------------------------------------------------------
(* Values *)

None == {}
Some(x) == {x}
Val(o) == CHOOSE x \in o : TRUE

\* x || 0 for an optional number
OrZero(o) == IF o = None THEN 0 ELSE Val(o)
\* x || '' for an optional string
OrEmpty(o) == IF o = None THEN "" ELSE Val(o)

RequiredKeys == {"id", "ticker", "entryDate", "entryPrice", "shares",
                 "strategy", "notes", "status"}
OptionalKeys == {"exitDate", "exitPrice", "pnl", "isWin"}

\* new Date().toISOString().split('T')[0] : the current calendar date
Today == "2024-03-01"

\* new Date().toISOString() at instant t
toISOString(t) == "2024-03-01T00:00:0" \o ToString(t) \o "Z"

----------------------------------------------------------------------------
(* JSON.stringify / JSON.parse of the trade sequence *)

\* JSON.stringify drops the keys whose value is undefined
StringifyTrade(t) ==
    [k \in RequiredKeys \cup {o \in OptionalKeys : t[o] # None} |->
        IF k \in OptionalKeys THEN Val(t[k]) ELSE t[k]]

JSONstringify(trs) == [i \in 1..Len(trs) |-> StringifyTrade(trs[i])]

\* a key absent from the parsed object reads as undefined
ParseTrade(o) ==
    [k \in RequiredKeys \cup OptionalKeys |->
        IF k \in OptionalKeys
        THEN (IF k \in DOMAIN o THEN Some(o[k]) ELSE None)
        ELSE o[k]]

JSONparse(js) == [i \in 1..Len(js) |-> ParseTrade(js[i])]

\* a persist effect that closes over the ledger of the previous render
PersistEffectStale(trs) == JSONstringify(trades)

\* the persist effect: localStorage.setItem('swing-trades', JSON.stringify(trades))
PersistEffect(trs) == JSONstringify(trs)

----------------------------------------------------------------------------
(* The ledger's two updaters (App) *)

\* prevTrades.findIndex(t => t.id === id): 0-based, -1 when there is none
findIndex(prevTrades, id) ==
    IF \E i \in 1..Len(prevTrades) : prevTrades[i].id = id
    THEN (CHOOSE i \in 1..Len(prevTrades) :
              /\ prevTrades[i].id = id
              /\ \A j \in 1..(i - 1) : prevTrades[j].id # id) - 1
    ELSE -1

\* an updater that appends a new trade instead of putting it first
handleSaveTradeAppend(prevTrades, trade) ==
    LET index == findIndex(prevTrades, trade.id)
    IN  IF index > -1
        THEN [prevTrades EXCEPT ![index + 1] = trade]
        ELSE prevTrades \o <<trade>>

\* an updater that moves an updated trade to the head
handleSaveTradeMoveToFront(prevTrades, trade) ==
    <<trade>> \o SelectSeq(prevTrades, LAMBDA t : t.id # trade.id)

\* the updater handleSaveTrade passes to setTrades
handleSaveTrade(prevTrades, trade) ==
    LET index == findIndex(prevTrades, trade.id)
    IN  IF index > -1
        THEN [prevTrades EXCEPT ![index + 1] = trade]
        ELSE <<trade>> \o prevTrades

\* a filter with its test inverted
handleDeleteTradeInverted(prev, tradeId) ==
    SelectSeq(prev, LAMBDA t : t.id = tradeId)

\* the updater handleDeleteTrade passes to setTrades
handleDeleteTrade(prev, tradeId) ==
    SelectSeq(prev, LAMBDA t : t.id # tradeId)

----------------------------------------------------------------------------
(* TradeModal *)

emptyTrade ==
    [ticker |-> "", entryDate |-> "", entryPrice |-> 0, shares |-> 0,
     strategy |-> "", notes |-> "", exitDate |-> "", exitPrice |-> 0]

\* the effect that loads tradeToEdit into the draft when the form opens
LoadDraft(tte) ==
    IF tte = None
    THEN [emptyTrade EXCEPT !.entryDate = Today]
    ELSE LET t == Val(tte)
         IN  [ticker |-> t.ticker, entryDate |-> t.entryDate,
              entryPrice |-> t.entryPrice, shares |-> t.shares,
              strategy |-> t.strategy, notes |-> t.notes,
              exitDate |-> OrEmpty(t.exitDate),
              exitPrice |-> OrZero(t.exitPrice)]

\* the values the user types into the trade form's fields (handleChange)
TickerInputs == {"", "AAPL"}
EntryDateInputs == {""}
EntryPriceInputs == {}
SharesInputs == {}
NotesInputs == {"n"}
ExitDateInputs == {"", Today}
ExitPriceInputs == {0, 110}

\* every draft handleChange can build from the loaded one
DraftsFrom(base) ==
    [ticker : {base.ticker} \cup TickerInputs,
     entryDate : {base.entryDate} \cup EntryDateInputs,
     entryPrice : {base.entryPrice} \cup EntryPriceInputs,
     shares : {base.shares} \cup SharesInputs,
     strategy : {base.strategy},
     notes : {base.notes} \cup NotesInputs,
     exitDate : {base.exitDate} \cup ExitDateInputs,
     exitPrice : {base.exitPrice} \cup ExitPriceInputs]

\* a form whose inputs are not required
RequiredFilledNever(draft) == TRUE

\* the form's required inputs (ticker, entryDate): the browser submits the
\* form, and so calls handleSubmit, only when they are filled
RequiredFilled(draft) == draft.ticker # "" /\ draft.entryDate # ""

\* a handleSubmit that computes pnl from the exit price alone
TradeModalNewTradeLoosePnl(draft, tte, t) ==
    LET isClosing == draft.exitDate # "" /\ draft.exitPrice # 0 /\ draft.exitPrice > 0
        hasPrice == draft.exitPrice > 0
        pnl == (draft.exitPrice - draft.entryPrice) * draft.shares
    IN  [id |-> IF tte # None /\ Val(tte).id # "" THEN Val(tte).id ELSE toISOString(t),
         ticker |-> draft.ticker,
         entryDate |-> draft.entryDate,
         entryPrice |-> draft.entryPrice,
         shares |-> draft.shares,
         strategy |-> draft.strategy,
         notes |-> draft.notes,
         status |-> IF isClosing THEN "closed" ELSE "open",
         exitDate |-> IF isClosing THEN Some(draft.exitDate) ELSE None,
         exitPrice |-> IF isClosing THEN Some(draft.exitPrice) ELSE None,
         pnl |-> IF hasPrice THEN Some(pnl) ELSE None,
         isWin |-> IF hasPrice THEN Some(pnl > 0) ELSE None]

\* the Trade that handleSubmit builds from the draft
TradeModalNewTrade(draft, tte, t) ==
    LET isClosing == draft.exitDate # "" /\ draft.exitPrice # 0 /\ draft.exitPrice > 0
        pnl == (draft.exitPrice - draft.entryPrice) * draft.shares
    IN  [id |-> IF tte # None /\ Val(tte).id # "" THEN Val(tte).id ELSE toISOString(t),
         ticker |-> draft.ticker,
         entryDate |-> draft.entryDate,
         entryPrice |-> draft.entryPrice,
         shares |-> draft.shares,
         strategy |-> draft.strategy,
         notes |-> draft.notes,
         status |-> IF isClosing THEN "closed" ELSE "open",
         exitDate |-> IF isClosing THEN Some(draft.exitDate) ELSE None,
         exitPrice |-> IF isClosing THEN Some(draft.exitPrice) ELSE None,
         pnl |-> IF isClosing THEN Some(pnl) ELSE None,
         isWin |-> IF isClosing THEN Some(pnl > 0) ELSE None]

----------------------------------------------------------------------------
(* ExitTradeModal *)

\* trades.filter(t => t.status === 'open'), the openTrades prop
openTradesOf(trs) == SelectSeq(trs, LAMBDA t : t.status = "open")

\* openTrades.find(t => t.id === selectedTradeId): {} when there is none
selectedTradeOf(openTrades, selectedTradeId) ==
    LET index == findIndex(openTrades, selectedTradeId)
    IN  IF index > -1 THEN Some(openTrades[index + 1]) ELSE None

\* the ids the select offers; '' stays selected only when no trade is open
SelectableIds(openTrades) ==
    IF openTrades = <<>> THEN {""}
    ELSE {openTrades[i].id : i \in 1..Len(openTrades)}

ExitNotesInputs == {""}

\* pnlPreview: {} when no preview is shown
pnlPreview(selectedTrade, exitPrice) ==
    IF selectedTrade = None \/ exitPrice = 0 \/ exitPrice <= 0
    THEN None
    ELSE LET pnl == (exitPrice - Val(selectedTrade).entryPrice) * Val(selectedTrade).shares
         IN  Some([value |-> pnl, isWin |-> pnl > 0])

\* the guard of handleSubmit: it alerts and returns when this is false
ExitDetailsFilled(selectedTrade, exitDate, exitPrice) ==
    ~(selectedTrade = None \/ exitDate = "" \/ exitPrice = 0 \/ exitPrice <= 0)

\* a commit that stores the price difference of one share
ExitUpdatedTradePerShare(selectedTrade, exitDate, exitPrice, notes) ==
    LET pnl == exitPrice - selectedTrade.entryPrice
    IN  [selectedTrade EXCEPT
            !.status = "closed",
            !.exitDate = Some(exitDate),
            !.exitPrice = Some(exitPrice),
            !.pnl = Some(pnl),
            !.isWin = Some(pnl > 0),
            !.notes = "Exit Notes: " \o notes]

\* the Trade that handleSubmit builds
ExitUpdatedTrade(selectedTrade, exitDate, exitPrice, notes) ==
    LET pnl == (exitPrice - selectedTrade.entryPrice) * selectedTrade.shares
    IN  [selectedTrade EXCEPT
            !.status = "closed",
            !.exitDate = Some(exitDate),
            !.exitPrice = Some(exitPrice),
            !.pnl = Some(pnl),
            !.isWin = Some(pnl > 0),
            !.notes = IF selectedTrade.notes # ""
                      THEN selectedTrade.notes \o "\n\nExit Notes: " \o notes
                      ELSE "Exit Notes: " \o notes]

----------------------------------------------------------------------------
(* The adapters: fetchTradesFromBroker, fetchTradesFromSheet *)

\* fetchTradesFromBroker: the two sample positions, completed with id, pnl
\* and isWin; time is new Date().getTime() when the response is mapped
sampleTrades ==
    << [ticker |-> "AAPL", entryDate |-> "2023-10-01", entryPrice |-> 17050,
        exitDate |-> "2023-10-15", exitPrice |-> 17820, shares |-> 50,
        strategy |-> "Breakout",
        notes |-> "Imported from broker: Breakout above previous high."],
       [ticker |-> "GOOGL", entryDate |-> "2023-10-05", entryPrice |-> 13510,
        exitDate |-> "2023-10-20", exitPrice |-> 13390, shares |-> 30,
        strategy |-> "Mean Reversion",
        notes |-> "Imported from broker: Failed trade, stopped out."] >>

fetchTradesFromBroker(time) ==
    [i \in 1..Len(sampleTrades) |->
        LET trade == sampleTrades[i]
            pnl == (trade.exitPrice - trade.entryPrice) * trade.shares
        IN  [id |-> "broker-" \o ToString(time) \o "-" \o ToString(i - 1),
             ticker |-> trade.ticker,
             entryDate |-> trade.entryDate,
             entryPrice |-> trade.entryPrice,
             shares |-> trade.shares,
             strategy |-> trade.strategy,
             notes |-> trade.notes,
             status |-> "closed",
             exitDate |-> Some(trade.exitDate),
             exitPrice |-> Some(trade.exitPrice),
             pnl |-> Some(pnl),
             isWin |-> Some(pnl > 0)]]

\* parseFloat on the cell texts the model uses: {} is NaN
Numerals ==
    ("0" :> 0) @@ ("10" :> 10) @@ ("50" :> 50) @@ ("90" :> 90) @@
    ("100" :> 100) @@ ("110" :> 110) @@ ("-100" :> (0 - 100))

parseFloat(s) == IF s \in DOMAIN Numerals THEN Some(Numerals[s]) ELSE None

\* row[i] || '' : a cell beyond the row's end is undefined
Cell(row, i) == IF i < Len(row) THEN row[i + 1] ELSE ""

\* one row of the sheet: {} when the row is skipped, else the trade pushed
ParseRow(row, index, time) ==
    IF Len(row) < 4 THEN None
    ELSE LET status == IF Cell(row, 7) = "open" THEN "open" ELSE "closed"
             id == IF Cell(row, 0) # "" THEN Cell(row, 0)
                   ELSE "sheet-import-" \o ToString(time) \o "-" \o ToString(index)
             ticker == Cell(row, 1)
             entryDate == Cell(row, 2)
             pnl == OrZero(parseFloat(Cell(row, 10)))
         IN  IF ticker # "" /\ entryDate # ""
             THEN Some([id |-> id,
                        ticker |-> ticker,
                        entryDate |-> entryDate,
                        entryPrice |-> OrZero(parseFloat(Cell(row, 3))),
                        shares |-> OrZero(parseFloat(Cell(row, 4))),
                        strategy |-> Cell(row, 5),
                        notes |-> Cell(row, 6),
                        status |-> status,
                        exitDate |-> IF status = "closed"
                                     THEN Some(Cell(row, 8)) ELSE None,
                        exitPrice |-> IF status = "closed"
                                      THEN Some(OrZero(parseFloat(Cell(row, 9)))) ELSE None,
                        pnl |-> IF status = "closed" THEN Some(pnl) ELSE None,
                        isWin |-> IF status = "closed"
                                  THEN Some(Cell(row, 11) = "Win") ELSE None])
             ELSE None

\* a forEach that stops at the first row it skips
fetchTradesFromSheetStopsAtSkipped(rows, time) ==
    LET parsed == [i \in 1..Len(rows) |-> ParseRow(rows[i], i - 1, time)]
        good == {i \in 1..Len(rows) : \A j \in 1..i : parsed[j] # None}
    IN  [i \in 1..Cardinality(good) |-> Val(parsed[i])]

\* rows.forEach(...): the trades pushed, in row order
fetchTradesFromSheet(rows, time) ==
    LET parsed == [i \in 1..Len(rows) |-> ParseRow(rows[i], i - 1, time)]
        kept == SelectSeq(parsed, LAMBDA o : o # None)
    IN  [i \in 1..Len(kept) |-> Val(kept[i])]

\* the rows the remote Trades sheet may hold (range A2:L; the API leaves out
\* a row's trailing empty cells)
RowOpen == <<"X1", "AAPL", "2024-01-02", "100", "10", "Swing", "", "open">>
RowEdited == <<"X2", "AAPL", "2024-01-02", "100", "10", "Swing", "", "closed",
               "2024-03-01", "110", "50", "Win">>
RowNoTicker == <<"X3", "", "2024-01-02", "100">>
RowBare == <<"X4", "AAPL", "2024-01-02", "100">>
RowShort == <<"X5", "AAPL", "2024-01-02">>

SheetRowSamples == {RowOpen, RowEdited, RowNoTicker, RowBare, RowShort}

\* the longest sheet read
MaxRows == 2

RowLists == UNION {[1..n -> SheetRowSamples] : n \in 0..MaxRows}

----------------------------------------------------------------------------
(* The state machine *)

NoTrade ==
    [id |-> "", ticker |-> "", entryDate |-> "", entryPrice |-> 0, shares |-> 0,
     strategy |-> "", notes |-> "", status |-> "open",
     exitDate |-> None, exitPrice |-> None, pnl |-> None, isWin |-> None]

Outcome(op, result, trade, rows) ==
    [op |-> op, result |-> result, trade |-> trade, rows |-> rows]

DEFAULT_PROFILE == [username |-> "Trader", avatar |-> ":bust:"]

\* the rest of the state before anything has happened in it
NoFetch ==
    [event |-> "none", trigger |-> "none", tickers |-> {}, outcome |-> "none",
     result |-> <<>>, overtaken |-> FALSE]

\* JournalView as it is first rendered: its polling effect has yet to run
LiveMounted ==
    /\ isFetchingLivePrices = FALSE
    /\ priceRequests = <<>>
    /\ effectPending = "mount"
    /\ renderedTrades = trades
    /\ intervals = 0
    /\ lastFetch = NoFetch

\* the debounce of the ticker search: 300 ms, in tenths of a second
DebounceDelay == 3

\* TradeModal as it is mounted: the ticker-search effect has run for ''
DebounceMounted ==
    /\ debounceTimers = <<>>
    /\ effectTicker = ""
    /\ quiet = DebounceDelay
    /\ lastLookup = [term |-> "", quiet |-> 0, input |-> ""]

\* no spreadsheet has been synced to yet
SyncMounted ==
    /\ sheet = <<>>
    /\ hasSpreadsheet = FALSE
    /\ isSyncing = FALSE
    /\ syncCall = None
    /\ lastSync = [result |-> "none", trades |-> <<>>]

\* the App has started with nothing stored
StartupOver ==
    /\ startupPc = "done"
    /\ startupQueue = <<>>
    /\ strictMode = FALSE
    /\ storedBefore = <<>>

AuxInit == LiveMounted /\ DebounceMounted /\ SyncMounted /\ StartupOver

\* the three forms as they are mounted: useState's initial values
FormsMounted ==
    /\ tradeDraft = emptyTrade
    /\ exitForm = [selectedTradeId |-> "", exitDate |-> "", exitPrice |-> 0,
                   notes |-> ""]
    /\ profileDraft = DEFAULT_PROFILE
    /\ userProfile = DEFAULT_PROFILE
    /\ storedProfile = None
    /\ isProfileModalOpen = FALSE
    /\ AuxInit

Init ==
    /\ trades = <<>>
    /\ stored = PersistEffect(<<>>)
    /\ isModalOpen = FALSE
    /\ tradeToEdit = None
    /\ isExitModalOpen = FALSE
    /\ isImporting = FALSE
    /\ inflight = "none"
    /\ importBase = <<>>
    /\ now = 1
    /\ ops = 0
    /\ last = Outcome("none", "none", NoTrade, <<>>)
    /\ liveData = <<>>
    /\ csvString = <<>>
    /\ FormsMounted

\* no overlay covers the journal
JournalInteractive == ~isModalOpen /\ ~isExitModalOpen /\ ~isProfileModalOpen

\* "Enter Trade"
handleOpenModal ==
    /\ JournalInteractive
    /\ tradeToEdit' = None
    /\ isModalOpen' = TRUE
    /\ UNCHANGED <<trades, stored, isExitModalOpen, isImporting, inflight,
                   importBase, now, ops, last>>
    /\ UNCHANGED viewVars

\* the edit button of row i
handleEditTrade(i) ==
    /\ JournalInteractive
    /\ tradeToEdit' = Some(trades[i])
    /\ isModalOpen' = TRUE
    /\ UNCHANGED <<trades, stored, isExitModalOpen, isImporting, inflight,
                   importBase, now, ops, last>>
    /\ UNCHANGED viewVars

\* a close button that submits the draft
handleCloseModalSaves ==
    /\ isModalOpen
    /\ trades' = handleSaveTrade(trades, TradeModalNewTrade(tradeDraft, tradeToEdit, now))
    /\ stored' = PersistEffect(trades')
    /\ isModalOpen' = FALSE
    /\ tradeToEdit' = None
    /\ UNCHANGED <<isExitModalOpen, isImporting, inflight, importBase, now, ops, last>>
    /\ UNCHANGED viewVars

\* Cancel or the close icon of the trade form
handleCloseModal ==
    /\ isModalOpen
    /\ isModalOpen' = FALSE
    /\ tradeToEdit' = None
    /\ UNCHANGED <<trades, stored, isExitModalOpen, isImporting, inflight,
                   importBase, now, ops, last>>
    /\ UNCHANGED viewVars

\* the browser refuses to submit the trade form: a required input is empty
TradeModalSubmitBlocked(draft) ==
    /\ ops < MaxOps
    /\ ops' = ops + 1
    /\ isModalOpen
    /\ ~RequiredFilled(draft)
    /\ last' = Outcome("TradeModal.handleSubmit", "ValidationError", NoTrade, <<>>)
    /\ UNCHANGED <<trades, stored, isModalOpen, tradeToEdit, isExitModalOpen,
                   isImporting, inflight, importBase, now>>
    /\ UNCHANGED viewVars

\* TradeModal.handleSubmit: onSave(newTrade); onClose()
TradeModalSubmit(draft) ==
    /\ ops < MaxOps
    /\ ops' = ops + 1
    /\ isModalOpen
    /\ RequiredFilled(draft)
    /\ LET newTrade == TradeModalNewTrade(draft, tradeToEdit, now)
       IN  /\ trades' = handleSaveTrade(trades, newTrade)
           /\ stored' = PersistEffect(trades')
           /\ last' = Outcome("TradeModal.handleSubmit", "saved", newTrade, <<>>)
    /\ now' = IF tradeToEdit = None THEN now + 1 ELSE now
    /\ isModalOpen' = FALSE
    /\ tradeToEdit' = None
    /\ UNCHANGED <<isExitModalOpen, isImporting, inflight, importBase>>
    /\ UNCHANGED viewVars

\* "Exit Trade": disabled when no trade is open
handleOpenExitModal ==
    /\ JournalInteractive
    /\ openTradesOf(trades) # <<>>
    /\ isExitModalOpen' = TRUE
    /\ UNCHANGED <<trades, stored, isModalOpen, tradeToEdit, isImporting,
                   inflight, importBase, now, ops, last>>
    /\ UNCHANGED viewVars

\* Cancel or the close icon of the exit form
handleCloseExitModal ==
    /\ isExitModalOpen
    /\ isExitModalOpen' = FALSE
    /\ UNCHANGED <<trades, stored, isModalOpen, tradeToEdit, isImporting,
                   inflight, importBase, now, ops, last>>
    /\ UNCHANGED viewVars

\* ExitTradeModal.handleSubmit when its guard fails: alert, nothing saved
ExitModalSubmitRefused(selectedTradeId, exitDate, exitPrice) ==
    /\ ops < MaxOps
    /\ ops' = ops + 1
    /\ isExitModalOpen
    /\ ~ExitDetailsFilled(selectedTradeOf(openTradesOf(trades), selectedTradeId),
                          exitDate, exitPrice)
    /\ last' = Outcome("ExitTradeModal.handleSubmit", "ValidationError", NoTrade, <<>>)
    /\ UNCHANGED <<trades, stored, isModalOpen, tradeToEdit, isExitModalOpen,
                   isImporting, inflight, importBase, now>>
    /\ UNCHANGED viewVars

\* ExitTradeModal.handleSubmit: onSave(updatedTrade); onClose()
ExitModalSubmit(selectedTradeId, exitDate, exitPrice, notes) ==
    /\ ops < MaxOps
    /\ ops' = ops + 1
    /\ isExitModalOpen
    /\ LET selectedTrade == selectedTradeOf(openTradesOf(trades), selectedTradeId)
       IN  /\ ExitDetailsFilled(selectedTrade, exitDate, exitPrice)
           /\ LET updatedTrade ==
                      ExitUpdatedTrade(Val(selectedTrade), exitDate, exitPrice, notes)
              IN  /\ trades' = handleSaveTrade(trades, updatedTrade)
                  /\ stored' = PersistEffect(trades')
                  /\ last' = Outcome("ExitTradeModal.handleSubmit", "saved",
                                     updatedTrade, <<>>)
    /\ isExitModalOpen' = FALSE
    /\ UNCHANGED <<isModalOpen, tradeToEdit, isImporting, inflight, importBase, now>>
    /\ UNCHANGED viewVars

\* the delete button of row i, and the answer to window.confirm
DeleteTrade(i, confirmed) ==
    /\ ops < MaxOps
    /\ ops' = ops + 1
    /\ JournalInteractive
    /\ IF confirmed
       THEN /\ trades' = handleDeleteTrade(trades, trades[i].id)
            /\ stored' = PersistEffect(trades')
            /\ last' = Outcome("handleDeleteTrade", "deleted",
                               [NoTrade EXCEPT !.id = trades[i].id], <<>>)
       ELSE /\ last' = Outcome("handleDeleteTrade", "declined",
                               [NoTrade EXCEPT !.id = trades[i].id], <<>>)
            /\ UNCHANGED <<trades, stored>>
    /\ UNCHANGED <<isModalOpen, tradeToEdit, isExitModalOpen, isImporting,
                   inflight, importBase, now>>
    /\ UNCHANGED viewVars

\* handleImportFromBroker up to its await; the button is disabled while
\* importing.  credentials: loadBrokerCredentials() holds a key and a secret
handleImportFromBroker(credentials, confirmed) ==
    /\ ops < MaxOps
    /\ ops' = ops + 1
    /\ JournalInteractive
    /\ ~isImporting
    /\ IF credentials /\ confirmed
       THEN /\ isImporting' = TRUE
            /\ inflight' = "broker"
            /\ importBase' = trades
            /\ last' = Outcome("handleImportFromBroker", "started", NoTrade, <<>>)
       ELSE /\ last' = Outcome("handleImportFromBroker",
                               IF credentials THEN "declined" ELSE "noCredentials",
                               NoTrade, <<>>)
            /\ UNCHANGED <<isImporting, inflight, importBase>>
    /\ UNCHANGED <<trades, stored, isModalOpen, tradeToEdit, isExitModalOpen, now>>
    /\ UNCHANGED viewVars

\* handleImportFromBroker after its await: fetchTradesFromBroker never rejects
BrokerResponse ==
    /\ ops' = ops + 1
    /\ inflight = "broker"
    /\ trades' = fetchTradesFromBroker(now)
    /\ stored' = PersistEffect(trades')
    /\ isImporting' = FALSE
    /\ inflight' = "none"
    /\ importBase' = <<>>
    /\ now' = now + 1
    /\ last' = Outcome("handleImportFromBroker", "imported", NoTrade, <<>>)
    /\ UNCHANGED <<isModalOpen, tradeToEdit, isExitModalOpen>>
    /\ UNCHANGED viewVars

\* an import button that stays enabled while an import is in flight
handleImportFromSheetsEnabled(confirmed) ==
    /\ ops < MaxOps
    /\ ops' = ops + 1
    /\ JournalInteractive
    /\ IF confirmed
       THEN /\ isImporting' = TRUE
            /\ inflight' = "sheets"
            /\ importBase' = trades
            /\ last' = Outcome("handleImportFromSheets", "started", NoTrade, <<>>)
       ELSE /\ last' = Outcome("handleImportFromSheets", "declined", NoTrade, <<>>)
            /\ UNCHANGED <<isImporting, inflight, importBase>>
    /\ UNCHANGED <<trades, stored, isModalOpen, tradeToEdit, isExitModalOpen, now>>
    /\ UNCHANGED viewVars

\* handleImportFromSheets up to its await; its button is disabled while
\* isImporting
handleImportFromSheets(confirmed) ==
    /\ ops < MaxOps
    /\ ops' = ops + 1
    /\ JournalInteractive
    /\ ~isImporting
    /\ IF confirmed
       THEN /\ isImporting' = TRUE
            /\ inflight' = "sheets"
            /\ importBase' = trades
            /\ last' = Outcome("handleImportFromSheets", "started", NoTrade, <<>>)
       ELSE /\ last' = Outcome("handleImportFromSheets", "declined", NoTrade, <<>>)
            /\ UNCHANGED <<isImporting, inflight, importBase>>
    /\ UNCHANGED <<trades, stored, isModalOpen, tradeToEdit, isExitModalOpen, now>>
    /\ UNCHANGED viewVars

\* handleImportFromSheets after its await, fetchTradesFromSheet having read rows
SheetsResponse(rows) ==
    /\ ops' = ops + 1
    /\ inflight = "sheets"
    /\ trades' = fetchTradesFromSheet(rows, now)
    /\ stored' = PersistEffect(trades')
    /\ isImporting' = FALSE
    /\ inflight' = "none"
    /\ importBase' = <<>>
    /\ last' = Outcome("handleImportFromSheets", "imported", NoTrade, rows)
    /\ UNCHANGED <<isModalOpen, tradeToEdit, isExitModalOpen, now>>
    /\ UNCHANGED viewVars

\* a catch branch that clears the ledger
SheetsFailureClears ==
    /\ ops' = ops + 1
    /\ inflight = "sheets"
    /\ trades' = <<>>
    /\ stored' = PersistEffect(trades')
    /\ isImporting' = FALSE
    /\ inflight' = "none"
    /\ importBase' = <<>>
    /\ last' = Outcome("handleImportFromSheets", "failed", NoTrade, <<>>)
    /\ UNCHANGED <<isModalOpen, tradeToEdit, isExitModalOpen, now>>
    /\ UNCHANGED viewVars

\* handleImportFromSheets after its await, fetchTradesFromSheet having thrown
\* (signed out, no spreadsheet synced yet, or the request failed)
SheetsFailure ==
    /\ ops' = ops + 1
    /\ inflight = "sheets"
    /\ isImporting' = FALSE
    /\ inflight' = "none"
    /\ importBase' = <<>>
    /\ last' = Outcome("handleImportFromSheets", "failed", NoTrade, <<>>)
    /\ UNCHANGED <<trades, stored, isModalOpen, tradeToEdit, isExitModalOpen, now>>
    /\ UNCHANGED viewVars

\* The ledger's operations.  A form's draft is not followed here: a submit
\* takes the draft the user has typed as its input.
Next ==
    \/ handleOpenModal /\ UNCHANGED formVars
    \/ \E i \in 1..Len(trades) : handleEditTrade(i) /\ UNCHANGED formVars
    \/ handleCloseModal /\ UNCHANGED formVars
    \/ \E draft \in DraftsFrom(LoadDraft(tradeToEdit)) :
          TradeModalSubmitBlocked(draft) /\ UNCHANGED formVars
    \/ \E draft \in DraftsFrom(LoadDraft(tradeToEdit)) :
          TradeModalSubmit(draft) /\ UNCHANGED formVars
    \/ handleOpenExitModal /\ UNCHANGED formVars
    \/ handleCloseExitModal /\ UNCHANGED formVars
    \/ \E id \in SelectableIds(openTradesOf(trades)), d \in ExitDateInputs \cup {Today},
          p \in ExitPriceInputs :
          ExitModalSubmitRefused(id, d, p) /\ UNCHANGED formVars
    \/ \E id \in SelectableIds(openTradesOf(trades)), d \in ExitDateInputs \cup {Today},
          p \in ExitPriceInputs, n \in ExitNotesInputs :
          ExitModalSubmit(id, d, p, n) /\ UNCHANGED formVars
    \/ \E i \in 1..Len(trades), confirmed \in BOOLEAN :
          DeleteTrade(i, confirmed) /\ UNCHANGED formVars
    \/ \E credentials \in BOOLEAN, confirmed \in BOOLEAN :
          handleImportFromBroker(credentials, confirmed) /\ UNCHANGED formVars
    \/ BrokerResponse /\ UNCHANGED formVars
    \/ \E confirmed \in BOOLEAN :
          handleImportFromSheets(confirmed) /\ UNCHANGED formVars
    \/ \E rows \in RowLists : SheetsResponse(rows) /\ UNCHANGED formVars
    \/ SheetsFailure /\ UNCHANGED formVars

Spec == Init /\ [][Next]_vars

\* an import in flight ends: its await resolves or rejects
ImportSettles ==
    \/ BrokerResponse /\ UNCHANGED formVars
    \/ \E rows \in RowLists : SheetsResponse(rows) /\ UNCHANGED formVars
    \/ SheetsFailure /\ UNCHANGED formVars

\* the ledger's operations when every request comes to its end
ImportSpec == Init /\ [][Next]_vars /\ WF_vars(ImportSettles)

----------------------------------------------------------------------------
(* JournalView: the figures derived from the ledger, and the CSV export *)

closedTradesOf(trs) == SelectSeq(trs, LAMBDA t : t.status = "closed")

\* closedTrades.reduce((acc, trade) => acc + (trade.pnl || 0), 0), from the
\* k-th element on
RECURSIVE totalPnlFrom(_, _, _)
totalPnlFrom(closedTrades, k, acc) ==
    IF k > Len(closedTrades) THEN acc
    ELSE totalPnlFrom(closedTrades, k + 1, acc + OrZero(closedTrades[k].pnl))

\* a total taken over the winning trades only
totalPnlOfWins(trs) ==
    totalPnlFrom(SelectSeq(closedTradesOf(trs), LAMBDA t : t.isWin = Some(TRUE)), 1, 0)

totalPnl(trs) == totalPnlFrom(closedTradesOf(trs), 1, 0)

\* closedTrades.filter(t => t.isWin).length
winningTrades(trs) ==
    Len(SelectSeq(closedTradesOf(trs), LAMBDA t : t.isWin = Some(TRUE)))

\* a win rate taken over every trade of the ledger
winRateOfAllTrades(trs) ==
    IF Len(trs) > 0
    THEN [num |-> winningTrades(trs) * 100, den |-> Len(trs)]
    ELSE [num |-> 0, den |-> 1]

\* winRate, as the fraction num / den (the quotient is not rounded here)
winRate(trs) ==
    IF Len(closedTradesOf(trs)) > 0
    THEN [num |-> winningTrades(trs) * 100, den |-> Len(closedTradesOf(trs))]
    ELSE [num |-> 0, den |-> 1]

\* liveData[ticker] || 0
currentPriceOrZero(prices, ticker) ==
    IF ticker \in DOMAIN prices /\ prices[ticker] # None
    THEN prices[ticker] ELSE Some(0)

\* liveData[ticker]: {} when the ticker is absent or mapped to null
currentPriceOf(prices, ticker) ==
    IF ticker \in DOMAIN prices THEN prices[ticker] ELSE None

\* openTrades.reduce(...), from the k-th element on
RECURSIVE totalUnrealizedPnlFrom(_, _, _, _)
totalUnrealizedPnlFrom(openTrades, prices, k, acc) ==
    IF k > Len(openTrades) THEN acc
    ELSE LET trade == openTrades[k]
             currentPrice == currentPriceOf(prices, trade.ticker)
         IN  totalUnrealizedPnlFrom(openTrades, prices, k + 1,
                IF currentPrice # None
                THEN acc + (Val(currentPrice) - trade.entryPrice) * trade.shares
                ELSE acc)

totalUnrealizedPnl(trs, prices) ==
    totalUnrealizedPnlFrom(openTradesOf(trs), prices, 1, 0)

\* new Date(entryDate).getTime(), in days, of the dates the model uses
DateValues ==
    ("2023-10-01" :> 19631) @@ ("2023-10-05" :> 19635) @@
    ("2024-01-02" :> 19724) @@ ("2024-03-01" :> 19783)

getTime(date) == DateValues[date]

\* a sort that puts an element before those it compares equal to
sortInsertUnstable(sorted, t) ==
    LET k == Cardinality({i \in 1..Len(sorted) :
                 getTime(sorted[i].entryDate) - getTime(t.entryDate) < 0})
    IN  SubSeq(sorted, 1, k) \o <<t>> \o SubSeq(sorted, k + 1, Len(sorted))

\* Array.prototype.sort with the comparator a.entryDate - b.entryDate: the
\* sort is stable, so an element goes behind those that do not compare greater
sortInsert(sorted, t) ==
    LET k == Cardinality({i \in 1..Len(sorted) :
                 getTime(sorted[i].entryDate) - getTime(t.entryDate) <= 0})
    IN  SubSeq(sorted, 1, k) \o <<t>> \o SubSeq(sorted, k + 1, Len(sorted))

RECURSIVE sortByEntryDate(_)
sortByEntryDate(seq) ==
    IF seq = <<>> THEN <<>>
    ELSE sortInsert(sortByEntryDate(SubSeq(seq, 1, Len(seq) - 1)), seq[Len(seq)])

\* the reduce that builds chartData: acc holds the points pushed so far
RECURSIVE chartReduce(_, _)
chartReduce(sorted, acc) ==
    IF Len(acc) = Len(sorted) THEN acc
    ELSE LET index == Len(acc)
             trade == sorted[index + 1]
             previous == IF index > 0 THEN acc[index].cumulativePnl ELSE 0
         IN  chartReduce(sorted,
                Append(acc, [name |-> "Trade " \o ToString(index + 1),
                             pnl |-> trade.pnl,
                             cumulativePnl |-> previous + OrZero(trade.pnl)]))

chartData(trs) == chartReduce(sortByEntryDate(closedTradesOf(trs)), <<>>)

\* the characters of the strings that hold a quote, a comma or a line break;
\* any other string of the model is one token without such a character
CharTable ==
    ("a,b" :> <<"a", ",", "b">>) @@
    ("q\"q" :> <<"q", "\"", "q">>) @@
    ("l\nm" :> <<"l", "\n", "m">>)

Chars(str) ==
    IF str \in DOMAIN CharTable THEN CharTable[str]
    ELSE IF str = "" THEN <<>> ELSE <<str>>

\* value.replace(/"/g, '""').replace(/\n/g, ' ')
RECURSIVE csvEscape(_)
csvEscape(chars) ==
    IF chars = <<>> THEN <<>>
    ELSE (IF Head(chars) = "\"" THEN <<"\"", "\"">>
          ELSE IF Head(chars) = "\n" THEN <<" ">>
          ELSE <<Head(chars)>>) \o csvEscape(Tail(chars))

csvQuoted(str) == <<"\"">> \o csvEscape(Chars(str)) \o <<"\"">>

header ==
    <<"id", "ticker", "status", "entryDate", "entryPrice", "exitDate",
      "exitPrice", "shares", "strategy", "notes", "pnl", "isWin">>

\* one cell of the export: a string is quoted, undefined is empty, a number
\* or a boolean is written as it prints
csvValue(trade, fieldName) ==
    IF fieldName \in {"id", "ticker", "status", "entryDate", "strategy", "notes"}
    THEN csvQuoted(trade[fieldName])
    ELSE IF fieldName \in {"entryPrice", "shares"}
    THEN <<ToString(trade[fieldName])>>
    ELSE IF trade[fieldName] = None THEN <<>>
    ELSE IF fieldName = "exitDate" THEN csvQuoted(Val(trade[fieldName]))
    ELSE IF fieldName = "isWin"
    THEN <<IF Val(trade[fieldName]) THEN "true" ELSE "false">>
    ELSE <<ToString(Val(trade[fieldName]))>>

\* parts.join(separator)
RECURSIVE join(_, _)
join(parts, separator) ==
    IF parts = <<>> THEN <<>>
    ELSE IF Len(parts) = 1 THEN parts[1]
    ELSE parts[1] \o <<separator>> \o join(Tail(parts), separator)

csvRows(trs) ==
    <<join([i \in 1..Len(header) |-> <<header[i]>>], ",")>> \o
    [t \in 1..Len(trs) |->
        join([i \in 1..Len(header) |-> csvValue(trs[t], header[i])], ",")]

csvStringOf(trs) == join(csvRows(trs), "\n")

\* the rows a ledger shown in the journal was read from
JournalRowClosedLoss ==
    <<"J4", "GOOGL", "2023-10-05", "100", "10", "Swing", "q\"q", "closed",
      "2024-01-02", "90", "-100", "Loss">>
JournalRowClosedSameDay ==
    <<"J5", "AAPL", "2024-01-02", "100", "10", "Swing", "l\nm", "closed",
      "2024-03-01", "110", "10", "Win">>
JournalRowOpen ==
    <<"J3", "GOOGL", "2024-03-01", "90", "10", "Swing", "a,b", "open">>

JournalRowSamples ==
    {RowOpen, RowEdited, JournalRowOpen, JournalRowClosedLoss, JournalRowClosedSameDay}

\* the longest ledger shown in the journal
MaxLedger == 3

JournalLedgers ==
    {fetchTradesFromSheet(rows, 1) :
        rows \in UNION {[1..n -> JournalRowSamples] : n \in 0..MaxLedger}}

\* the answers of getLivePrices: a price, null, or no entry for a ticker
PriceInputs == {None, Some(120)}
PriceMaps == UNION {[tickers -> PriceInputs] : tickers \in SUBSET {"AAPL", "GOOGL"}}

ledgerVars ==
    <<trades, stored, isModalOpen, tradeToEdit, isExitModalOpen, isImporting,
      inflight, importBase, now, ops, last>>

\* the journal is shown with a ledger that a spreadsheet import has loaded
JournalInit ==
    /\ trades \in JournalLedgers
    /\ stored = PersistEffect(trades)
    /\ isModalOpen = FALSE
    /\ tradeToEdit = None
    /\ isExitModalOpen = FALSE
    /\ isImporting = FALSE
    /\ inflight = "none"
    /\ importBase = <<>>
    /\ now = 1
    /\ ops = 0
    /\ last = Outcome("none", "none", NoTrade, <<>>)
    /\ liveData = <<>>
    /\ csvString = <<>>
    /\ FormsMounted

\* fetchLivePrices with the answer of getLivePrices: no request is made and
\* the map is emptied when no trade is open
fetchLivePrices(prices) ==
    /\ liveData' = IF openTradesOf(trades) = <<>> THEN <<>> ELSE prices
    /\ UNCHANGED csvString
    /\ UNCHANGED auxVars
    /\ UNCHANGED ledgerVars
    /\ UNCHANGED formVars

\* "Download CSV": an alert and no file when the ledger is empty
handleDownloadCsv ==
    /\ Len(trades) # 0
    /\ csvString' = csvStringOf(trades)
    /\ UNCHANGED liveData
    /\ UNCHANGED auxVars
    /\ UNCHANGED ledgerVars
    /\ UNCHANGED formVars

JournalNext ==
    \/ \E prices \in PriceMaps : fetchLivePrices(prices)
    \/ handleDownloadCsv

JournalSpec == JournalInit /\ [][JournalNext]_vars

----------------------------------------------------------------------------
(* JournalView's live prices: every call of fetchLivePrices, every answer  *)
(* of getLivePrices and every run of the polling effect is a step.         *)
(* JournalView computes openTrades with trades.filter in its body, so      *)
(* every render makes a new array, useCallback (deps [openTrades]) a new   *)
(* fetchLivePrices, and the effect (deps [fetchLivePrices]) runs again.    *)
(* A render follows a state update that changes a value: setLiveData with  *)
(* a new object always does, setIsFetchingLivePrices(true) does when the   *)
(* flag was false.  The updates made in one handler are rendered together. *)

\* the most getLivePrices calls awaiting their answer at a time
MaxInflight == 2

\* the prices an answer may give a ticker: null or a number
LivePriceInputs == {None, Some(120), Some(130)}

\* [...new Set(openTrades.map(t => t.ticker))]
tickersOf(trs) == {openTradesOf(trs)[i].ticker : i \in 1..Len(openTradesOf(trs))}

\* a catch branch that reports a price of 0
getLivePricesOnErrorZero(tickers) == [t \in tickers |-> Some(0)]

\* getLivePrices, its catch branch: null for every requested ticker
getLivePricesOnError(tickers) == [t \in tickers |-> None]

\* what getLivePrices may resolve to: the parsed JSON object, {} when the
\* text holds no JSON object, or the result of its catch branch
getLivePricesAnswers(tickers) ==
    {[outcome |-> "prices", result |-> m] : m \in [tickers -> LivePriceInputs]}
    \cup {[outcome |-> "noJson", result |-> <<>>]}
    \cup {[outcome |-> "error", result |-> getLivePricesOnError(tickers)]}

\* an update that keeps the entries the answer does not have
setLiveDataMerged(prev, prices) ==
    [t \in DOMAIN prices \cup DOMAIN prev |->
        IF t \in DOMAIN prices THEN prices[t] ELSE prev[t]]

\* setLiveData(prices)
setLiveData(prev, prices) == prices

\* the cause of the render whose polling effect has yet to run
PendingRender ==
    IF trades # renderedTrades
    THEN (IF openTradesOf(trades) # openTradesOf(renderedTrades)
          THEN "openTrades" ELSE "trades")
    ELSE effectPending

\* React runs a render's effects before it handles the next event; with no
\* open trade the effect's setLiveData({}) renders again each time
NoEffectPending == PendingRender \in {"none", "empty"}

\* the effect waits for an answer: MaxInflight calls are out
EffectHeld ==
    /\ PendingRender # "none"
    /\ tickersOf(trades) # {}
    /\ Len(priceRequests) >= MaxInflight

\* fetchLivePrices up to its await.  settled: the value of effectPending if
\* the call changes no state
fetchLivePricesCall(trigger, settled) ==
    LET tickers == tickersOf(trades)
    IN  IF tickers = {}
        THEN /\ liveData' = setLiveData(liveData, <<>>)
             /\ effectPending' = "empty"
             /\ lastFetch' = [NoFetch EXCEPT !.event = "skipped", !.trigger = trigger]
             /\ UNCHANGED <<isFetchingLivePrices, priceRequests>>
        ELSE /\ Len(priceRequests) < MaxInflight
             /\ priceRequests' =
                    Append(priceRequests, [tickers |-> tickers, overtaken |-> FALSE])
             /\ isFetchingLivePrices' = TRUE
             /\ effectPending' = IF isFetchingLivePrices THEN settled ELSE "fetching"
             /\ lastFetch' = [NoFetch EXCEPT !.event = "called", !.trigger = trigger,
                                             !.tickers = tickers]
             /\ UNCHANGED liveData

\* the polling effect: the cleanup of the previous run (clearInterval), then
\* fetchLivePrices() and setInterval(fetchLivePrices, 60000)
PollingEffect ==
    /\ PendingRender # "none"
    /\ renderedTrades' = trades
    /\ intervals' = (IF PendingRender = "mount" THEN intervals ELSE intervals - 1) + 1
    /\ fetchLivePricesCall(PendingRender, "none")
    /\ UNCHANGED csvString
    /\ UNCHANGED otherThanLive
    /\ UNCHANGED ledgerVars
    /\ UNCHANGED formVars

\* the 60-second timer fires
IntervalTick ==
    /\ NoEffectPending
    /\ intervals > 0
    /\ fetchLivePricesCall("tick", effectPending)
    /\ UNCHANGED <<renderedTrades, intervals, csvString>>
    /\ UNCHANGED otherThanLive
    /\ UNCHANGED ledgerVars
    /\ UNCHANGED formVars

\* the refresh button: disabled while isFetchingLivePrices
handleRefresh ==
    /\ NoEffectPending
    /\ JournalInteractive
    /\ ~isFetchingLivePrices
    /\ fetchLivePricesCall("refresh", effectPending)
    /\ UNCHANGED <<renderedTrades, intervals, csvString>>
    /\ UNCHANGED otherThanLive
    /\ UNCHANGED ledgerVars
    /\ UNCHANGED formVars

\* the calls awaiting their answer once the k-th is answered: those made
\* before it have been overtaken
RemainingRequests(k) ==
    [i \in 1..(Len(priceRequests) - 1) |->
        IF i < k THEN [priceRequests[i] EXCEPT !.overtaken = TRUE]
        ELSE priceRequests[i + 1]]

\* fetchLivePrices after its await, getLivePrices having resolved the k-th
\* call to answer: setLiveData(prices), finally setIsFetchingLivePrices(false)
LivePricesAnswer(k, answer) ==
    /\ NoEffectPending \/ EffectHeld
    /\ liveData' = setLiveData(liveData, answer.result)
    /\ isFetchingLivePrices' = FALSE
    /\ priceRequests' = RemainingRequests(k)
    /\ effectPending' = "answer"
    /\ lastFetch' = [event |-> "answered", trigger |-> "none",
                     tickers |-> priceRequests[k].tickers,
                     outcome |-> answer.outcome, result |-> answer.result,
                     overtaken |-> priceRequests[k].overtaken]
    /\ UNCHANGED <<renderedTrades, intervals, csvString>>
    /\ UNCHANGED otherThanLive
    /\ UNCHANGED ledgerVars
    /\ UNCHANGED formVars

\* the ledgers the journal is shown with here
LiveLedgers ==
    {fetchTradesFromSheet(rows, 1) :
        rows \in {<<>>, <<RowEdited>>, <<RowOpen>>, <<RowOpen, RowEdited>>,
                  <<RowOpen, JournalRowOpen>>, <<JournalRowOpen, RowEdited, RowOpen>>}}

LiveInit ==
    /\ trades \in LiveLedgers
    /\ stored = PersistEffect(trades)
    /\ isModalOpen = FALSE
    /\ tradeToEdit = None
    /\ isExitModalOpen = FALSE
    /\ isImporting = FALSE
    /\ inflight = "none"
    /\ importBase = <<>>
    /\ now = 1
    /\ ops = 0
    /\ last = Outcome("none", "none", NoTrade, <<>>)
    /\ liveData = <<>>
    /\ csvString = <<>>
    /\ FormsMounted

LiveAnswers ==
    \E k \in 1..Len(priceRequests) :
        \E answer \in getLivePricesAnswers(priceRequests[k].tickers) :
            LivePricesAnswer(k, answer)

LiveNext ==
    \/ PollingEffect
    \/ IntervalTick
    \/ handleRefresh
    \/ LiveAnswers
    \/ \E i \in 1..Len(trades) :
          NoEffectPending /\ DeleteTrade(i, TRUE) /\ UNCHANGED formVars

\* getLivePrices settles every call, and React runs the effects of a render
LiveSpec ==
    /\ LiveInit
    /\ [][LiveNext]_vars
    /\ WF_vars(PollingEffect)
    /\ WF_vars(LiveAnswers)

----------------------------------------------------------------------------
(* The three forms with their drafts: every keystroke is a step *)

\* a keystroke counts as an operation; it leaves the rest of App's state alone
appVarsButOps ==
    <<trades, stored, isModalOpen, tradeToEdit, isExitModalOpen, isImporting,
      inflight, importBase, now, last>>

\* TradeModal's effect on [tradeToEdit, isOpen], run as the form opens
LoadTradeDraft == tradeDraft' = LoadDraft(tradeToEdit')

\* TradeModal.handleChange on one of the fields followed here; an input's
\* change event fires when its value changes
TradeModalChange(name, value) ==
    /\ ops < MaxOps
    /\ ops' = ops + 1
    /\ isModalOpen
    /\ tradeDraft[name] # value
    /\ tradeDraft' = [tradeDraft EXCEPT ![name] = value]
    /\ UNCHANGED <<exitForm, profileDraft, userProfile, storedProfile, isProfileModalOpen>>
    /\ UNCHANGED appVarsButOps
    /\ UNCHANGED viewVars

TradeModalFieldInputs ==
    ({"ticker"} \X TickerInputs) \cup ({"notes"} \X NotesInputs) \cup
    ({"exitDate"} \X ExitDateInputs) \cup ({"exitPrice"} \X ExitPriceInputs)

\* ExitTradeModal's effect on [isOpen, openTrades], run as the form opens
ResetExitForm ==
    exitForm' = [selectedTradeId |-> IF Len(openTradesOf(trades)) > 0
                                     THEN openTradesOf(trades)[1].id ELSE "",
                 exitDate |-> Today,
                 exitPrice |-> 0,
                 notes |-> ""]

\* setSelectedTradeId, setExitDate, setExitPrice, setNotes
ExitModalChange(name, value) ==
    /\ ops < MaxOps
    /\ ops' = ops + 1
    /\ isExitModalOpen
    /\ exitForm[name] # value
    /\ exitForm' = [exitForm EXCEPT ![name] = value]
    /\ UNCHANGED <<tradeDraft, profileDraft, userProfile, storedProfile, isProfileModalOpen>>
    /\ UNCHANGED appVarsButOps
    /\ UNCHANGED viewVars

ExitModalFieldInputs ==
    ({"selectedTradeId"} \X SelectableIds(openTradesOf(trades))) \cup
    ({"exitDate"} \X ExitDateInputs) \cup ({"exitPrice"} \X ExitPriceInputs) \cup
    ({"notes"} \X ExitNotesInputs)

\* the avatar button: setIsProfileModalOpen(true); ProfileModal's effect on
\* [currentUserProfile, isOpen] copies the profile into the draft
handleOpenProfileModal ==
    /\ JournalInteractive
    /\ isProfileModalOpen' = TRUE
    /\ profileDraft' = userProfile
    /\ UNCHANGED <<tradeDraft, exitForm, userProfile, storedProfile>>
    /\ UNCHANGED ledgerVars
    /\ UNCHANGED viewVars

\* Cancel or the close icon of the profile form; the effect runs again
handleCloseProfileModal ==
    /\ isProfileModalOpen
    /\ isProfileModalOpen' = FALSE
    /\ profileDraft' = userProfile
    /\ UNCHANGED <<tradeDraft, exitForm, userProfile, storedProfile>>
    /\ UNCHANGED ledgerVars
    /\ UNCHANGED viewVars

\* ProfileModal.handleChange
ProfileModalChange(name, value) ==
    /\ ops < MaxOps
    /\ ops' = ops + 1
    /\ isProfileModalOpen
    /\ profileDraft[name] # value
    /\ profileDraft' = [profileDraft EXCEPT ![name] = value]
    /\ UNCHANGED <<tradeDraft, exitForm, userProfile, storedProfile, isProfileModalOpen>>
    /\ UNCHANGED appVarsButOps
    /\ UNCHANGED viewVars

ProfileFieldInputs == ({"username"} \X {"", "Ann"}) \cup ({"avatar"} \X {"A"})

\* ProfileModal.handleSubmit and handleSaveProfile; both inputs are required
handleSaveProfile ==
    /\ ops < MaxOps
    /\ ops' = ops + 1
    /\ isProfileModalOpen
    /\ profileDraft.username # "" /\ profileDraft.avatar # ""
    /\ userProfile' = profileDraft
    /\ storedProfile' = Some(profileDraft)
    /\ isProfileModalOpen' = FALSE
    /\ profileDraft' = userProfile'
    /\ last' = Outcome("handleSaveProfile", "saved", NoTrade, <<>>)
    /\ UNCHANGED <<tradeDraft, exitForm>>
    /\ UNCHANGED <<trades, stored, isModalOpen, tradeToEdit, isExitModalOpen,
                   isImporting, inflight, importBase, now>>
    /\ UNCHANGED viewVars

\* the ledgers the forms are opened on
FormLedgers ==
    {fetchTradesFromSheet(rows, 1) : rows \in {<<>>, <<RowOpen>>, <<RowOpen, RowEdited>>}}

FormsInit ==
    /\ trades \in FormLedgers
    /\ stored = PersistEffect(trades)
    /\ isModalOpen = FALSE
    /\ tradeToEdit = None
    /\ isExitModalOpen = FALSE
    /\ isImporting = FALSE
    /\ inflight = "none"
    /\ importBase = <<>>
    /\ now = 1
    /\ ops = 0
    /\ last = Outcome("none", "none", NoTrade, <<>>)
    /\ liveData = <<>>
    /\ csvString = <<>>
    /\ FormsMounted

otherThanTrade == <<exitForm, profileDraft, userProfile, storedProfile, isProfileModalOpen>>
otherThanExit == <<tradeDraft, profileDraft, userProfile, storedProfile, isProfileModalOpen>>

\* ExitTradeModal's effect on [isOpen, openTrades] after a render of the App:
\* the App hands it trades.filter(...), a new array on each of its renders
ExitModalEffect ==
    IF isExitModalOpen' THEN ResetExitForm ELSE UNCHANGED exitForm

FormsNext ==
    \/ handleOpenModal /\ LoadTradeDraft /\ UNCHANGED otherThanTrade
    \/ \E i \in 1..Len(trades) :
          handleEditTrade(i) /\ LoadTradeDraft /\ UNCHANGED otherThanTrade
    \/ \E input \in TradeModalFieldInputs : TradeModalChange(input[1], input[2])
    \/ handleCloseModal /\ UNCHANGED formVars
    \/ TradeModalSubmitBlocked(tradeDraft) /\ UNCHANGED formVars
    \/ TradeModalSubmit(tradeDraft) /\ UNCHANGED formVars
    \/ handleOpenExitModal /\ ResetExitForm /\ UNCHANGED otherThanExit
    \/ \E input \in ExitModalFieldInputs : ExitModalChange(input[1], input[2])
    \/ handleCloseExitModal /\ UNCHANGED formVars
    \/ ExitModalSubmitRefused(exitForm.selectedTradeId, exitForm.exitDate,
                              exitForm.exitPrice) /\ UNCHANGED formVars
    \/ ExitModalSubmit(exitForm.selectedTradeId, exitForm.exitDate,
                       exitForm.exitPrice, exitForm.notes) /\ UNCHANGED formVars
    \/ handleOpenProfileModal
    \/ \E input \in ProfileFieldInputs : ProfileModalChange(input[1], input[2])
    \/ handleCloseProfileModal
    \/ handleSaveProfile
    \/ handleImportFromSheets(TRUE) /\ UNCHANGED formVars
    \/ SheetsFailure /\ ExitModalEffect /\ UNCHANGED otherThanExit

FormsSpec == FormsInit /\ [][FormsNext]_vars

----------------------------------------------------------------------------
(* The spreadsheet: syncTradesToSheet request by request, and the import   *)
(* reading what the sheet holds.  A cell is the text it shows; a number is *)
(* written as it prints, and values.get leaves out a row's trailing empty  *)
(* cells and the sheet's trailing empty rows.  The button that starts a    *)
(* sync is JournalView's, which stays mounted here.                        *)

tradeHeader ==
    <<"ID", "Ticker", "Entry Date", "Entry Price", "Shares", "Strategy", "Notes",
      "Status", "Exit Date", "Exit Price", "P/L", "Result">>

\* x || '' for an optional number: undefined and 0 give ''
numberOrBlank(o) == IF o = None \/ Val(o) = 0 THEN "" ELSE ToString(Val(o))

\* a row whose Result cell is written in capitals
tradeRowCapitals(t) ==
    <<t.id, t.ticker, t.entryDate, ToString(t.entryPrice), ToString(t.shares),
      t.strategy, t.notes, t.status, OrEmpty(t.exitDate), numberOrBlank(t.exitPrice),
      numberOrBlank(t.pnl),
      IF t.status = "closed" THEN (IF t.isWin = Some(TRUE) THEN "WIN" ELSE "LOSS") ELSE "">>

\* one element of tradeRows
tradeRow(t) ==
    <<t.id, t.ticker, t.entryDate, ToString(t.entryPrice), ToString(t.shares),
      t.strategy, t.notes, t.status, OrEmpty(t.exitDate), numberOrBlank(t.exitPrice),
      numberOrBlank(t.pnl),
      IF t.status = "closed" THEN (IF t.isWin = Some(TRUE) THEN "Win" ELSE "Loss") ELSE "">>

tradeRows(trs) == [i \in 1..Len(trs) |-> tradeRow(trs[i])]

\* values.batchUpdate at Trades!A1: the rows given replace those of the sheet
\* from row 1 on, the rows below them stay
valuesUpdate(rows, values) ==
    [i \in 1..(IF Len(rows) > Len(values) THEN Len(rows) ELSE Len(values)) |->
        IF i <= Len(values) THEN values[i] ELSE rows[i]]

\* a sync that clears nothing
valuesClearNothing(rows, first) == rows

\* values.clear of Trades!A<first>:L : the rows from first on are emptied
valuesClear(rows, first) ==
    SubSeq(rows, 1, IF first - 1 < Len(rows) THEN first - 1 ELSE Len(rows))

\* a row without its trailing empty cells
RECURSIVE trimRow(_)
trimRow(row) ==
    IF row = <<>> THEN <<>>
    ELSE IF row[Len(row)] = "" THEN trimRow(SubSeq(row, 1, Len(row) - 1))
    ELSE row

\* values.get of Trades!A2:L
valuesGet(rows) == [i \in 1..(Len(rows) - 1) |-> trimRow(rows[i + 1])]

\* the most rows the sheet holds
MaxSheet == 4

\* "Upload to Sheets": handleSync up to the first await of syncTradesToSheet;
\* the button is shown to a signed-in user and disabled while syncing or
\* importing
handleSync ==
    /\ JournalInteractive
    /\ ~isSyncing
    /\ ~isImporting
    /\ isSyncing' = TRUE
    /\ syncCall' = Some([pc |-> "getOrCreateSpreadsheet", trades |-> trades])
    /\ UNCHANGED <<sheet, hasSpreadsheet, lastSync>>
    /\ UNCHANGED otherThanSync
    /\ UNCHANGED journalVars
    /\ UNCHANGED ledgerVars
    /\ UNCHANGED formVars

\* getOrCreateSpreadsheet: the stored spreadsheet if it can be read, else a
\* new one, whose Trades sheet is empty
getOrCreateSpreadsheet(accessible) ==
    /\ syncCall # None
    /\ Val(syncCall).pc = "getOrCreateSpreadsheet"
    /\ IF hasSpreadsheet /\ accessible
       THEN UNCHANGED <<sheet, hasSpreadsheet>>
       ELSE sheet' = <<>> /\ hasSpreadsheet' = TRUE
    /\ syncCall' = Some([Val(syncCall) EXCEPT !.pc = "batchUpdate"])
    /\ UNCHANGED <<isSyncing, lastSync>>
    /\ UNCHANGED otherThanSync
    /\ UNCHANGED journalVars
    /\ UNCHANGED ledgerVars
    /\ UNCHANGED formVars

\* values.batchUpdate with [tradeHeader, ...tradeRows]
SyncBatchUpdate ==
    /\ syncCall # None
    /\ Val(syncCall).pc = "batchUpdate"
    /\ sheet' = valuesUpdate(sheet, <<tradeHeader>> \o tradeRows(Val(syncCall).trades))
    /\ syncCall' = Some([Val(syncCall) EXCEPT !.pc = "clear"])
    /\ UNCHANGED <<hasSpreadsheet, isSyncing, lastSync>>
    /\ UNCHANGED otherThanSync
    /\ UNCHANGED journalVars
    /\ UNCHANGED ledgerVars
    /\ UNCHANGED formVars

\* values.clear from row tradeRows.length + 2, then handleSync's
\* setLastSyncUrl and finally
SyncClear ==
    /\ syncCall # None
    /\ Val(syncCall).pc = "clear"
    /\ sheet' = valuesClear(sheet, Len(tradeRows(Val(syncCall).trades)) + 2)
    /\ syncCall' = None
    /\ isSyncing' = FALSE
    /\ lastSync' = [result |-> "synced", trades |-> Val(syncCall).trades]
    /\ UNCHANGED hasSpreadsheet
    /\ UNCHANGED otherThanSync
    /\ UNCHANGED journalVars
    /\ UNCHANGED ledgerVars
    /\ UNCHANGED formVars

\* a request of the sync is rejected: handleSync's catch and finally
SyncFailure ==
    /\ syncCall # None
    /\ syncCall' = None
    /\ isSyncing' = FALSE
    /\ lastSync' = [result |-> "failed", trades |-> Val(syncCall).trades]
    /\ UNCHANGED <<sheet, hasSpreadsheet>>
    /\ UNCHANGED otherThanSync
    /\ UNCHANGED journalVars
    /\ UNCHANGED ledgerVars
    /\ UNCHANGED formVars

\* somebody adds a row below the last row of the sheet
RemoteAppend(row) ==
    /\ hasSpreadsheet
    /\ Len(sheet) < MaxSheet
    /\ sheet' = Append(sheet, row)
    /\ lastSync' = [lastSync EXCEPT !.result = "edited"]
    /\ UNCHANGED <<hasSpreadsheet, isSyncing, syncCall>>
    /\ UNCHANGED otherThanSync
    /\ UNCHANGED journalVars
    /\ UNCHANGED ledgerVars
    /\ UNCHANGED formVars

\* the ledgers that are synced
SheetLedgers ==
    {fetchTradesFromSheet(rows, 1) :
        rows \in {<<RowOpen>>, <<RowBare, JournalRowOpen>>,
                  <<JournalRowClosedLoss, RowOpen, JournalRowClosedSameDay>>}}

SheetInit ==
    /\ trades \in SheetLedgers
    /\ stored = PersistEffect(trades)
    /\ isModalOpen = FALSE
    /\ tradeToEdit = None
    /\ isExitModalOpen = FALSE
    /\ isImporting = FALSE
    /\ inflight = "none"
    /\ importBase = <<>>
    /\ now = 1
    /\ ops = 0
    /\ last = Outcome("none", "none", NoTrade, <<>>)
    /\ liveData = <<>>
    /\ csvString = <<>>
    /\ FormsMounted

\* fetchTradesFromSheet throws without a spreadsheet id; else it reads the sheet
SheetNext ==
    \/ handleSync
    \/ \E accessible \in BOOLEAN : getOrCreateSpreadsheet(accessible)
    \/ SyncBatchUpdate
    \/ SyncClear
    \/ SyncFailure
    \/ \E row \in {RowEdited} : RemoteAppend(row)
    \/ \E i \in 1..Len(trades) : DeleteTrade(i, TRUE) /\ UNCHANGED formVars
    \/ handleImportFromSheets(TRUE) /\ UNCHANGED formVars
    \/ hasSpreadsheet /\ SheetsResponse(valuesGet(sheet)) /\ UNCHANGED formVars
    \/ SheetsFailure /\ UNCHANGED formVars

SheetSpec == SheetInit /\ [][SheetNext]_vars

----------------------------------------------------------------------------
(* The App's startup: the first render has trades = [] (useState), then    *)
(* the two effects run in the order they are declared, the load effect     *)
(* (deps []) and the persist effect (deps [trades]); the setTrades of the  *)
(* load effect is rendered after the effects, and the persist effect runs  *)
(* again for the new trades.  In StrictMode React runs the mount effects a *)
(* second time before that render.                                         *)

\* the load effect: savedTrades = localStorage.getItem('swing-trades');
\* if (savedTrades) setTrades(JSON.parse(savedTrades)).  The text of an
\* empty array, '[]', is truthy
StartupLoadEffect ==
    /\ startupPc \in {"load", "load again"}
    /\ startupQueue' = Append(startupQueue, JSONparse(stored))
    /\ startupPc' = IF startupPc = "load" THEN "persist" ELSE "persist again"
    /\ UNCHANGED <<strictMode, storedBefore>>
    /\ UNCHANGED otherThanStartup
    /\ UNCHANGED journalVars
    /\ UNCHANGED ledgerVars
    /\ UNCHANGED formVars

\* the persist effect, run with the trades of the render it belongs to
StartupPersistEffect ==
    /\ startupPc \in {"persist", "persist again", "persist loaded"}
    /\ stored' = PersistEffect(trades)
    /\ startupPc' = IF startupPc = "persist" /\ strictMode THEN "load again"
                    ELSE IF startupPc = "persist loaded" THEN "done"
                    ELSE "render"
    /\ UNCHANGED <<trades, isModalOpen, tradeToEdit, isExitModalOpen, isImporting,
                   inflight, importBase, now, ops, last>>
    /\ UNCHANGED <<startupQueue, strictMode, storedBefore>>
    /\ UNCHANGED otherThanStartup
    /\ UNCHANGED journalVars
    /\ UNCHANGED formVars

\* the render of the queued setTrades updates: the last one stays
StartupRender ==
    /\ startupPc = "render"
    /\ trades' = startupQueue[Len(startupQueue)]
    /\ startupQueue' = <<>>
    /\ startupPc' = "persist loaded"
    /\ UNCHANGED <<stored, isModalOpen, tradeToEdit, isExitModalOpen, isImporting,
                   inflight, importBase, now, ops, last>>
    /\ UNCHANGED <<strictMode, storedBefore>>
    /\ UNCHANGED otherThanStartup
    /\ UNCHANGED journalVars
    /\ UNCHANGED formVars

\* the App is rendered for the first time over a snapshot stored earlier
StartupInit ==
    /\ trades = <<>>
    /\ stored \in {PersistEffect(trs) : trs \in JournalLedgers}
    /\ isModalOpen = FALSE
    /\ tradeToEdit = None
    /\ isExitModalOpen = FALSE
    /\ isImporting = FALSE
    /\ inflight = "none"
    /\ importBase = <<>>
    /\ now = 1
    /\ ops = 0
    /\ last = Outcome("none", "none", NoTrade, <<>>)
    /\ liveData = <<>>
    /\ csvString = <<>>
    /\ tradeDraft = emptyTrade
    /\ exitForm = [selectedTradeId |-> "", exitDate |-> "", exitPrice |-> 0,
                   notes |-> ""]
    /\ profileDraft = DEFAULT_PROFILE
    /\ userProfile = DEFAULT_PROFILE
    /\ storedProfile = None
    /\ isProfileModalOpen = FALSE
    /\ LiveMounted /\ DebounceMounted /\ SyncMounted
    /\ startupPc = "load"
    /\ startupQueue = <<>>
    /\ strictMode \in BOOLEAN
    /\ storedBefore = stored

StartupNext ==
    \/ StartupLoadEffect
    \/ StartupPersistEffect
    \/ StartupRender

StartupSpec == StartupInit /\ [][StartupNext]_vars

----------------------------------------------------------------------------
(* TradeModal's ticker search: the debounced effect on [trade.ticker].     *)
(* Time passes in tenths of a second; a timer that is due fires before     *)
(* more time passes, and an effect runs before anything else happens.      *)

\* what is typed into the ticker input here
DebounceTickerInputs == {"", "a", "AAPL", "ap le", "ap le ", "go og"}

\* String.prototype.trim on these
trim(str) == IF str = "ap le " THEN "ap le" ELSE str

\* searchTerm.length and searchTerm.includes(' ') on these
length(str) ==
    IF str = "" THEN 0 ELSE IF str = "a" THEN 1 ELSE IF str = "AAPL" THEN 4
    ELSE IF str = "ap le " THEN 6 ELSE 5

includesSpace(str) == str \in {"ap le", "ap le ", "go og"}

\* the effect returns without a timer: the input is too short or has no space
NoSearch(searchTerm) ==
    length(searchTerm) < 2 \/ (length(searchTerm) > 1 /\ ~includesSpace(searchTerm))

\* an effect without its cleanup
DebounceCleanupNone(timers) == [i \in 1..Len(timers) |-> [timers[i] EXCEPT !.latest = FALSE]]

\* the cleanup of the effect's previous run: clearTimeout(timer) of the timer
\* that run set, if it set one and the timer has not fired
DebounceCleanup(timers) == SelectSeq(timers, LAMBDA t : ~t.latest)

\* the effect on [trade.ticker], run after a render with a new trade.ticker
DebounceEffect ==
    /\ tradeDraft.ticker # effectTicker
    /\ effectTicker' = tradeDraft.ticker
    /\ quiet' = 0
    /\ LET searchTerm == trim(tradeDraft.ticker)
           cleaned == DebounceCleanup(debounceTimers)
       IN  debounceTimers' =
               IF NoSearch(searchTerm) THEN cleaned
               ELSE Append(cleaned, [term |-> searchTerm, dueIn |-> DebounceDelay,
                                     latest |-> TRUE])
    /\ UNCHANGED lastLookup
    /\ UNCHANGED <<journalVars, otherThanDebounce>>
    /\ UNCHANGED ledgerVars
    /\ UNCHANGED formVars

DebounceSettled == tradeDraft.ticker = effectTicker

\* a tenth of a second passes
Elapse ==
    /\ DebounceSettled
    /\ \A i \in 1..Len(debounceTimers) : debounceTimers[i].dueIn > 0
    /\ debounceTimers' =
           [i \in 1..Len(debounceTimers) |->
               [debounceTimers[i] EXCEPT !.dueIn = debounceTimers[i].dueIn - 1]]
    /\ quiet' = IF quiet < DebounceDelay THEN quiet + 1 ELSE quiet
    /\ UNCHANGED <<effectTicker, lastLookup>>
    /\ UNCHANGED <<journalVars, otherThanDebounce>>
    /\ UNCHANGED ledgerVars
    /\ UNCHANGED formVars

\* the timer's callback: searchTickerSymbols(searchTerm) is called
DebounceTimerFires(i) ==
    /\ DebounceSettled
    /\ debounceTimers[i].dueIn = 0
    /\ debounceTimers' =
           [j \in 1..(Len(debounceTimers) - 1) |->
               IF j < i THEN debounceTimers[j] ELSE debounceTimers[j + 1]]
    /\ lastLookup' = [term |-> debounceTimers[i].term, quiet |-> quiet,
                      input |-> tradeDraft.ticker]
    /\ UNCHANGED <<effectTicker, quiet>>
    /\ UNCHANGED <<journalVars, otherThanDebounce>>
    /\ UNCHANGED ledgerVars
    /\ UNCHANGED formVars

DebounceNext ==
    \/ DebounceEffect
    \/ Elapse
    \/ \E i \in 1..Len(debounceTimers) : DebounceTimerFires(i)
    \/ DebounceSettled /\ handleOpenModal /\ LoadTradeDraft /\ UNCHANGED otherThanTrade
    \/ \E i \in 1..Len(trades) :
          DebounceSettled /\ handleEditTrade(i) /\ LoadTradeDraft /\ UNCHANGED otherThanTrade
    \/ \E value \in DebounceTickerInputs :
          DebounceSettled /\ TradeModalChange("ticker", value)
    \/ DebounceSettled /\ handleCloseModal /\ UNCHANGED formVars

DebounceSpec == FormsInit /\ [][DebounceNext]_vars

----------------------------------------------------------------------------
(* Properties *)

\* the step completes an operation (the history variable last names it)
Completes(op) == ops' = ops + 1 /\ last'.op = op

\* the step is a save: one of the two forms called handleSaveTrade
SaveStep ==
    /\ ops' = ops + 1
    /\ last'.op \in {"TradeModal.handleSubmit", "ExitTradeModal.handleSubmit"}
    /\ last'.result = "saved"

\* the trades of seq whose id is not id, in order
RECURSIVE Without(_, _)
Without(seq, id) ==
    IF seq = <<>> THEN <<>>
    ELSE IF Head(seq).id = id THEN Without(Tail(seq), id)
    ELSE <<Head(seq)>> \o Without(Tail(seq), id)

IdsOf(trs) == {trs[i].id : i \in 1..Len(trs)}

\* C1: after every add, update and remove (and every other operation that
\* completes) the snapshot stored under 'swing-trades' parses back to the
\* in-memory trade sequence: same trades, same order.
C1_SnapshotEqualsLedger == JSONparse(stored) = trades

\* C1 witness: a removal has completed and left a closed trade in the ledger
C1_Witness ==
    /\ last.op = "handleDeleteTrade"
    /\ last.result = "deleted"
    /\ \E i \in 1..Len(trades) : trades[i].status = "closed"

\* C2: in every reachable ledger every closed trade carries pnl and isWin and
\* every open trade carries neither.
C2_ClosedHavePnlOpenHaveNone ==
    \A i \in 1..Len(trades) :
        IF trades[i].status = "closed"
        THEN trades[i].pnl # None /\ trades[i].isWin # None
        ELSE trades[i].pnl = None /\ trades[i].isWin = None

\* C2 witness: the trade form has just saved a trade as open next to a closed
\* one that a spreadsheet import left in the ledger
C2_Witness ==
    /\ last.op = "TradeModal.handleSubmit"
    /\ last.result = "saved"
    /\ last.trade.status = "open"
    /\ \E i \in 1..Len(trades) : trades[i] = last.trade
    /\ \E i \in 1..Len(trades) : trades[i].status = "closed" /\ trades[i].id = "X2"

\* C3 (as specified): once the trade with an id is closed in the ledger, no save
\* of that id through the trade form or the exit form stores it as open.
C3_ClosingIsOneWay ==
    [][(/\ SaveStep
        /\ findIndex(trades, last'.trade.id) > -1
        /\ trades[findIndex(trades, last'.trade.id) + 1].status = "closed")
       => last'.trade.status = "closed"]_vars

\* C4 (as specified): saving a closed trade of the ledger from the edit form with
\* only its notes changed leaves its status, pnl and isWin as stored.
C4_NotesEditKeepsPnl ==
    [][(/\ Completes("TradeModal.handleSubmit")
        /\ last'.result = "saved"
        /\ tradeToEdit # None
        /\ \E i \in 1..Len(trades) : trades[i] = Val(tradeToEdit)
        /\ Val(tradeToEdit).status = "closed"
        /\ \E n \in NotesInputs :
              last'.trade = TradeModalNewTrade(
                                [LoadDraft(tradeToEdit) EXCEPT !.notes = n],
                                tradeToEdit, now))
       => /\ last'.trade.status = Val(tradeToEdit).status
          /\ last'.trade.pnl = Val(tradeToEdit).pnl
          /\ last'.trade.isWin = Val(tradeToEdit).isWin]_vars

\* the step ends an import: it is declined, refused, fails or succeeds
ImportEnds ==
    /\ ops' = ops + 1
    /\ last'.op \in {"handleImportFromBroker", "handleImportFromSheets"}
    /\ last'.result # "started"

\* the ledger after the step is the adapter's full result
LedgerIsImportedSet ==
    IF last'.op = "handleImportFromBroker"
    THEN trades' = fetchTradesFromBroker(now)
    ELSE trades' = fetchTradesFromSheet(last'.rows, now)

\* C5 (as specified): when an import finishes, either the ledger is the full
\* translated set, or the import failed or was declined and the ledger is
\* what it was before the import started.
C5_AllOrLedgerAtStart ==
    [][ImportEnds =>
          IF last'.result = "imported" THEN LedgerIsImportedSet
          ELSE IF last'.result = "failed" THEN trades' = importBase
          ELSE trades' = trades]_vars

\* C5 (amended): when an import finishes, either the ledger is the full
\* translated set, or the import failed or was declined and the finishing
\* step left the ledger and its snapshot exactly as they were just before it
\* (changes the user made while the import was in flight remain).
C5_AllOrNothing ==
    [][ImportEnds =>
          IF last'.result = "imported" THEN LedgerIsImportedSet
          ELSE trades' = trades /\ stored' = stored]_vars

\* C5 witness: a spreadsheet import has failed with trades in the ledger
C5_Witness ==
    /\ last.op = "handleImportFromSheets"
    /\ last.result = "failed"
    /\ trades # <<>>

\* C6: a save of a trade whose id is not in the ledger puts it at index 0: the
\* ledger is one longer and the trades it held follow in their order.
C6_NewIdInsertedAtHead ==
    [][(SaveStep /\ last'.trade.id \notin IdsOf(trades))
       => /\ Len(trades') = Len(trades) + 1
          /\ trades'[1] = last'.trade
          /\ \A i \in 1..Len(trades) : trades'[i + 1] = trades[i]]_vars

\* C6 witness: two trades have been added, the later one first
C6_Witness ==
    /\ ops = 2
    /\ Len(trades) = 2
    /\ last.result = "saved"
    /\ trades[1] = last.trade
    /\ trades[1].id = toISOString(2)
    /\ trades[2].id = toISOString(1)

\* C7: a submit of the trade form with an empty ticker or entry date fails
\* with a validation error and leaves the ledger and its snapshot unchanged;
\* no save stores a trade with an empty ticker or entry date.
C7_EmptyTickerOrDateRejected ==
    [][/\ Completes("TradeModal.handleSubmit") =>
            IF last'.result = "saved"
            THEN /\ last'.trade.ticker # "" /\ last'.trade.entryDate # ""
                 /\ \E i \in 1..Len(trades') : trades'[i] = last'.trade
            ELSE /\ last'.result = "ValidationError"
                 /\ trades' = trades
                 /\ stored' = stored
       /\ SaveStep => last'.trade.ticker # "" /\ last'.trade.entryDate # ""]_vars

\* C7 witness: the browser has refused a submit and the form is still open
C7_Witness ==
    /\ last.op = "TradeModal.handleSubmit"
    /\ last.result = "ValidationError"
    /\ isModalOpen
    /\ trades # <<>>

\* C8: a save of a trade whose id is in the ledger replaces the trade at that
\* index (the first with the id): same length, every other trade as it was.
C8_ExistingIdReplacedInPlace ==
    [][(SaveStep /\ last'.trade.id \in IdsOf(trades))
       => /\ Len(trades') = Len(trades)
          /\ \E i \in 1..Len(trades) :
                /\ trades[i].id = last'.trade.id
                /\ \A j \in 1..(i - 1) : trades[j].id # last'.trade.id
                /\ trades'[i] = last'.trade
                /\ \A j \in 1..Len(trades) : j # i => trades'[j] = trades[j]]_vars

\* C8 witness: the exit form has closed the second trade of the ledger, which
\* is still second
C8_Witness ==
    /\ last.op = "ExitTradeModal.handleSubmit"
    /\ last.result = "saved"
    /\ Len(trades) = 2
    /\ trades[2] = last.trade
    /\ trades[1].id # trades[2].id

\* C9 (as specified): a save from the edit form or the exit form whose id is no
\* longer in the ledger fails with NotFoundError and leaves the ledger
\* unchanged.
C9_UpdateOfMissingIdFails ==
    [][(/\ ops' = ops + 1
        /\ \/ last'.op = "ExitTradeModal.handleSubmit"
           \/ last'.op = "TradeModal.handleSubmit" /\ tradeToEdit # None
        /\ last'.result # "ValidationError"
        /\ last'.trade.id \notin IdsOf(trades))
       => trades' = trades /\ last'.result = "NotFoundError"]_vars

\* C10: a confirmed removal deletes the trade with the id and keeps the others
\* in their order; a declined removal, and the removal of an id the ledger
\* does not hold, leave the ledger unchanged.
C10_RemoveDeletesOnlyThatId ==
    /\ [](\A id \in {"X1", "X2", "X4", toISOString(1), "absent"} \ IdsOf(trades) :
             handleDeleteTrade(trades, id) = trades)
    /\ [][Completes("handleDeleteTrade") =>
            IF last'.result = "deleted"
            THEN /\ last'.trade.id \in IdsOf(trades)
                 /\ last'.trade.id \notin IdsOf(trades')
                 /\ trades' = Without(trades, last'.trade.id)
            ELSE trades' = trades /\ stored' = stored]_vars

\* C10 witness: a confirmed removal has left another trade in the ledger
C10_Witness ==
    /\ last.op = "handleDeleteTrade"
    /\ last.result = "deleted"
    /\ trades # <<>>

\* the step is a spreadsheet import that has fetched its rows
SheetImported == Completes("handleImportFromSheets") /\ last'.result = "imported"

\* the rows of at least minCells cells with a ticker and an entry date, in order
RECURSIVE RowsKept(_, _)
RowsKept(rows, minCells) ==
    IF rows = <<>> THEN <<>>
    ELSE LET row == Head(rows)
             keep == Len(row) >= minCells /\ row[2] # "" /\ row[3] # ""
         IN  (IF keep THEN <<row>> ELSE <<>>) \o RowsKept(Tail(rows), minCells)

\* the ledger after the step holds one trade for each row of kept, in order
LedgerMirrors(kept) ==
    /\ Len(trades') = Len(kept)
    /\ \A k \in 1..Len(kept) :
          /\ trades'[k].id = kept[k][1]
          /\ trades'[k].ticker = kept[k][2]
          /\ trades'[k].entryDate = kept[k][3]

\* C11 (as specified): no two trades of the ledger share an id, and a save
\* from the edit form or the exit form keeps the id of the trade it edits.
C11_IdsUniqueAndImmutable ==
    /\ [](\A i, j \in 1..Len(trades) : i # j => trades[i].id # trades[j].id)
    /\ [][SaveStep =>
            /\ (last'.op = "TradeModal.handleSubmit" /\ tradeToEdit # None)
                  => last'.trade.id = Val(tradeToEdit).id
            /\ last'.op = "ExitTradeModal.handleSubmit"
                  => last'.trade.id \in IdsOf(openTradesOf(trades))]_vars

\* C12 (as specified): a trade of the ledger is open exactly when it has no
\* exit date and no exit price, and a closed trade has a non-empty exit date
\* and an exit price.
C12_OpenIffNoExitFields ==
    \A i \in 1..Len(trades) :
        LET t == trades[i]
        IN  /\ t.status = "open" <=> (t.exitDate = None /\ t.exitPrice = None)
            /\ t.status = "closed" =>
                  /\ t.exitDate # None /\ Val(t.exitDate) # ""
                  /\ t.exitPrice # None

\* C13 (as specified): a spreadsheet import that fetched its rows puts in the
\* ledger exactly the rows with a ticker and an entry date, in their order.
C13_ImportKeepsRowsWithTickerAndDate ==
    [][SheetImported => LedgerMirrors(RowsKept(last'.rows, 3))]_vars

\* C13 (amended): a spreadsheet import that fetched its rows puts in the
\* ledger exactly the rows that have at least four cells, a ticker and an
\* entry date, in their order; the other rows are dropped, and with no such
\* row the ledger becomes empty.
C13_ImportKeepsWellFormedRows ==
    [][SheetImported =>
          /\ LedgerMirrors(RowsKept(last'.rows, 4))
          /\ RowsKept(last'.rows, 4) = <<>> => trades' = <<>> /\ JSONparse(stored') = <<>>
      ]_vars

\* C13 witness: an import of a row without a ticker followed by a complete
\* row has left the one trade in the ledger
C13_Witness ==
    /\ last.op = "handleImportFromSheets"
    /\ last.result = "imported"
    /\ last.rows = <<RowNoTicker, RowEdited>>
    /\ Len(trades) = 1
    /\ trades[1].id = "X2"

\* C14 (as specified): a trade an import reconstructs as closed comes from a
\* row whose status cell says closed and whose exit price and P/L cells are
\* present.
C14_ClosedOnlyIfExplicit ==
    [][SheetImported =>
          \A k \in 1..Len(trades') :
             trades'[k].status = "closed" =>
                \E r \in 1..Len(last'.rows) :
                   LET row == last'.rows[r]
                   IN  /\ row[1] = trades'[k].id
                       /\ Cell(row, 7) = "closed"
                       /\ Cell(row, 9) # ""
                       /\ Cell(row, 10) # ""]_vars

\* the sum of the values of a function with a finite domain
RECURSIVE SumFn(_)
SumFn(f) ==
    IF DOMAIN f = {} THEN 0
    ELSE LET x == CHOOSE y \in DOMAIN f : TRUE
         IN  f[x] + SumFn([y \in DOMAIN f \ {x} |-> f[y]])

ClosedIndices == {i \in 1..Len(trades) : trades[i].status = "closed"}
OpenIndices == {i \in 1..Len(trades) : trades[i].status = "open"}

\* C15: the win rate is 0 for a ledger without closed trades; with N > 0
\* closed trades, W of them with isWin true, it is 100*W/N; the open trades
\* do not count.
C15_WinRate ==
    LET N == Cardinality(ClosedIndices)
        W == Cardinality({i \in ClosedIndices : trades[i].isWin = Some(TRUE)})
        rate == winRate(trades)
    IN  /\ rate.den > 0
        /\ N = 0 => rate.num = 0
        /\ N > 0 => rate.num * N = 100 * W * rate.den
        /\ rate = winRate(closedTradesOf(trades))

\* C15 witness: an open trade, a closed win and a closed loss
C15_Witness ==
    /\ Len(trades) = 3
    /\ trades[1].status = "open"
    /\ trades[2].status = "closed" /\ trades[2].isWin = Some(TRUE)
    /\ trades[3].status = "closed" /\ trades[3].isWin = Some(FALSE)

\* C16: unrealized P/L is the sum of (price - entryPrice) * shares over the
\* open trades whose ticker the price map gives a number; a ticker that is
\* absent or mapped to null is skipped, closed trades add nothing, and the
\* sum is 0 with an empty map or without open trades.
C16_UnrealizedPnl ==
    LET priced == {i \in OpenIndices :
                      /\ trades[i].ticker \in DOMAIN liveData
                      /\ liveData[trades[i].ticker] # None}
        value == totalUnrealizedPnl(trades, liveData)
    IN  /\ value = SumFn([i \in priced |->
                     (Val(liveData[trades[i].ticker]) - trades[i].entryPrice)
                        * trades[i].shares])
        /\ (DOMAIN liveData = {} \/ OpenIndices = {}) => value = 0
        /\ value = totalUnrealizedPnl(openTradesOf(trades), liveData)

\* C16 witness: a priced open trade, an open trade whose ticker is mapped to
\* null and a closed trade whose ticker has a price
C16_Witness ==
    /\ Len(trades) = 3
    /\ DOMAIN liveData = {"AAPL", "GOOGL"}
    /\ liveData["AAPL"] = Some(120)
    /\ liveData["GOOGL"] = None
    /\ trades[1].status = "open" /\ trades[1].ticker = "AAPL"
    /\ trades[2].status = "open" /\ trades[2].ticker = "GOOGL"
    /\ trades[3].status = "closed" /\ trades[3].ticker = "AAPL"
    /\ totalUnrealizedPnl(trades, liveData) = 200

\* C17: total realized P/L is the sum of the stored pnl of the closed trades,
\* 0 for an empty ledger, whatever open trades the ledger holds.
C17_RealizedPnl ==
    /\ totalPnl(trades) = SumFn([i \in ClosedIndices |-> Val(trades[i].pnl)])
    /\ trades = <<>> => totalPnl(trades) = 0
    /\ totalPnl(trades) = totalPnl(closedTradesOf(trades))

\* C17 witness: a win of 50, a loss of 100 and an open trade
C17_Witness ==
    /\ Len(trades) = 3
    /\ \E i \in ClosedIndices : trades[i].pnl = Some(50)
    /\ \E i \in ClosedIndices : trades[i].pnl = Some(0 - 100)
    /\ OpenIndices # {}
    /\ totalPnl(trades) = 0 - 50

\* C18: the equity curve has one point for each closed trade, in ascending
\* order of entry date and, for equal dates, in ledger order; each point's
\* cumulative value is the sum of the pnl up to and including it, so the last
\* one is the total realized P/L.
C18_EquityCurve ==
    LET closed == closedTradesOf(trades)
        n == Len(closed)
        before(i, j) ==
            \/ getTime(closed[i].entryDate) < getTime(closed[j].entryDate)
            \/ getTime(closed[i].entryDate) = getTime(closed[j].entryDate) /\ i < j
        order == CHOOSE p \in Permutations(1..n) :
                    \A k \in 1..(n - 1) : before(p[k], p[k + 1])
        curve == chartData(trades)
    IN  /\ Len(curve) = n
        /\ \A k \in 1..n :
              /\ curve[k].pnl = closed[order[k]].pnl
              /\ curve[k].cumulativePnl =
                    SumFn([j \in 1..k |-> Val(closed[order[j]].pnl)])
        /\ n > 0 => curve[n].cumulativePnl = totalPnl(trades)

\* C18 witness: two closed trades entered on the same day, then one entered
\* earlier
C18_Witness ==
    /\ Len(trades) = 3
    /\ trades[1].id = "J5" /\ trades[2].id = "X2" /\ trades[3].id = "J4"
    /\ chartData(trades)[1].cumulativePnl = 0 - 100
    /\ chartData(trades)[2].cumulativePnl = 0 - 90
    /\ chartData(trades)[3].cumulativePnl = 0 - 40

\* A CSV text read by the usual rules: a field may be enclosed in quotes, a
\* doubled quote inside them stands for one quote, and commas and line breaks
\* inside them belong to the field.  A character is outside quotes when an
\* even number of quote characters precedes it.
csvOutside(chars, i) ==
    Cardinality({j \in 1..(i - 1) : chars[j] = "\""}) % 2 = 0

\* the positions of the separators sep that are outside quotes, and the end
csvBreaks(chars, sep) ==
    {i \in 1..Len(chars) : chars[i] = sep /\ csvOutside(chars, i)} \cup {Len(chars) + 1}

\* the k-th piece of chars cut at the separators sep
csvPiece(chars, sep, k) ==
    LET breaks == csvBreaks(chars, sep)
        nth(m) == IF m = 0 THEN 0
                  ELSE CHOOSE e \in breaks : Cardinality({x \in breaks : x < e}) = m - 1
    IN  SubSeq(chars, nth(k - 1) + 1, nth(k) - 1)

RECURSIVE csvUndouble(_)
csvUndouble(chars) ==
    IF chars = <<>> THEN <<>>
    ELSE IF Head(chars) = "\"" /\ Len(chars) > 1 /\ chars[2] = "\""
    THEN <<"\"">> \o csvUndouble(Tail(Tail(chars)))
    ELSE <<Head(chars)>> \o csvUndouble(Tail(chars))

\* a field without its enclosing quotes
csvUnquote(field) ==
    IF Len(field) >= 2 /\ field[1] = "\"" /\ field[Len(field)] = "\""
    THEN csvUndouble(SubSeq(field, 2, Len(field) - 1))
    ELSE field

\* field fieldNo of record recordNo of a CSV text
csvField(chars, recordNo, fieldNo) ==
    csvUnquote(csvPiece(csvPiece(chars, "\n", recordNo), ",", fieldNo))

csvRecordCount(chars) == Cardinality(csvBreaks(chars, "\n"))

\* C19 (as specified): in the exported CSV the notes field of every trade's
\* row reads back as the trade's notes.
C19_CsvNotesRoundTrip ==
    csvString # <<>> =>
        /\ csvRecordCount(csvString) = Len(trades) + 1
        /\ \A i \in 1..Len(trades) :
              csvField(csvString, i + 1, 10) = Chars(trades[i].notes)

\* the step closes a form without a submit
CancelStep ==
    /\ ops' = ops
    /\ \/ isModalOpen /\ ~isModalOpen'
       \/ isExitModalOpen /\ ~isExitModalOpen'
       \/ isProfileModalOpen /\ ~isProfileModalOpen'

\* the step is a keystroke in a form
DraftEditStep ==
    /\ <<tradeDraft, exitForm, profileDraft>>' # <<tradeDraft, exitForm, profileDraft>>
    /\ UNCHANGED <<isModalOpen, isExitModalOpen, isProfileModalOpen>>

\* the ledger, the profile and their snapshots are as they were
NothingSaved ==
    /\ trades' = trades
    /\ stored' = stored
    /\ userProfile' = userProfile
    /\ storedProfile' = storedProfile

\* C20: closing the trade form, the exit form or the profile form without a
\* submit, and editing their drafts, changes neither the ledger, the profile
\* nor their snapshots; the draft is discarded: a form that opens shows the
\* trade or the profile it was opened on, not what was typed before.
C20_CancelSavesNothing ==
    [][/\ (CancelStep \/ DraftEditStep) => NothingSaved
       /\ (~isModalOpen /\ isModalOpen') => tradeDraft' = LoadDraft(tradeToEdit')
       /\ (~isExitModalOpen /\ isExitModalOpen') =>
              /\ exitForm'.exitPrice = 0 /\ exitForm'.notes = ""
              /\ exitForm'.exitDate = Today
              /\ exitForm'.selectedTradeId = openTradesOf(trades)[1].id
       /\ (~isProfileModalOpen /\ isProfileModalOpen') => profileDraft' = userProfile
       /\ (isProfileModalOpen /\ ~isProfileModalOpen') => profileDraft' = userProfile'
      ]_vars

\* C20 witness: the trade form was cancelled with notes typed into its draft,
\* nothing was ever submitted, and the ledger holds its two trades
C20_Witness ==
    /\ ~isModalOpen /\ ~isExitModalOpen /\ ~isProfileModalOpen
    /\ tradeDraft.notes = "n"
    /\ last.op = "none"
    /\ Len(trades) = 2
    /\ JSONparse(stored) = trades
    /\ userProfile = DEFAULT_PROFILE /\ storedProfile = None

\* the trade selected in the exit form, and the preview the form shows
C21_selectedTrade == selectedTradeOf(openTradesOf(trades), exitForm.selectedTradeId)
C21_preview == pnlPreview(C21_selectedTrade, exitForm.exitPrice)

\* the step is a submit of the exit form: no draft changes in it
C21_SubmitStep ==
    /\ Completes("ExitTradeModal.handleSubmit")
    /\ isExitModalOpen
    /\ UNCHANGED <<tradeDraft, exitForm, profileDraft>>

\* C21: whenever the exit form shows a P/L preview, its value and win flag are
\* the pnl and isWin of the trade a submit at that moment builds and stores;
\* a submit is accepted exactly when a preview is shown and the exit date is
\* set, and a refused submit stores nothing.
C21_PreviewEqualsCommit ==
    /\ []((isExitModalOpen /\ C21_preview # None) =>
            LET updatedTrade == ExitUpdatedTrade(Val(C21_selectedTrade), exitForm.exitDate,
                                                 exitForm.exitPrice, exitForm.notes)
            IN  /\ updatedTrade.pnl = Some(Val(C21_preview).value)
                /\ updatedTrade.isWin = Some(Val(C21_preview).isWin))
    /\ [][C21_SubmitStep =>
            /\ last'.result = "saved" <=> (C21_preview # None /\ exitForm.exitDate # "")
            /\ last'.result = "saved" =>
                  /\ last'.trade.pnl = Some(Val(C21_preview).value)
                  /\ last'.trade.isWin = Some(Val(C21_preview).isWin)
                  /\ last'.trade.id = exitForm.selectedTradeId
                  /\ \E i \in 1..Len(trades') : trades'[i] = last'.trade
            /\ last'.result # "saved" => trades' = trades /\ stored' = stored]_vars

\* C21 witness: the exit form has committed the exit at 110 of ten shares
\* entered at 100, the preview having shown a win of 100
C21_Witness ==
    /\ last.op = "ExitTradeModal.handleSubmit"
    /\ last.result = "saved"
    /\ exitForm.exitPrice = 110
    /\ last.trade.pnl = Some(100)
    /\ last.trade.isWin = Some(TRUE)
    /\ \E i \in 1..Len(trades) : trades[i] = last.trade

\* the step is the answer to a getLivePrices call that failed
C22_FailedAnswer ==
    /\ Len(priceRequests') < Len(priceRequests)
    /\ lastFetch'.event = "answered"
    /\ lastFetch'.outcome = "error"

\* C22: when a live-price fetch fails, the ledger and its snapshot are as
\* they were, every requested ticker has no known price, unrealized P/L
\* counts no trade, and the fetching flag is false after the answer; a
\* fetching flag that is true always becomes false again.
C22_FetchFailureIsNotFatal ==
    /\ [][C22_FailedAnswer =>
            /\ trades' = trades
            /\ stored' = stored
            /\ \A t \in lastFetch'.tickers : currentPriceOf(liveData', t) = None
            /\ totalUnrealizedPnl(trades', liveData') = 0
            /\ ~isFetchingLivePrices']_vars
    /\ [](isFetchingLivePrices => <>(~isFetchingLivePrices))

\* C22 witness: the call for the prices of two open trades has failed
C22_Witness ==
    /\ lastFetch.event = "answered"
    /\ lastFetch.outcome = "error"
    /\ lastFetch.tickers = {"AAPL", "GOOGL"}
    /\ tickersOf(trades) = {"AAPL", "GOOGL"}
    /\ liveData = [t \in {"AAPL", "GOOGL"} |-> None]
    /\ ~isFetchingLivePrices
    /\ JSONparse(stored) = trades

\* the step is a debounce timer firing: a timer goes and no effect has run
C23_LookupIssued ==
    /\ Len(debounceTimers') < Len(debounceTimers)
    /\ effectTicker' = effectTicker

\* C23: at most one debounce timer is pending; when the ticker input has
\* changed and its effect has run, the only timer pending is the new one,
\* with the whole delay ahead; a lookup is issued only for the input as it
\* is, after it stayed unchanged for the whole 300 ms.
C23_DebounceOneTimer ==
    /\ [](Len(debounceTimers) <= 1)
    /\ [][effectTicker' # effectTicker =>
            \A i \in 1..Len(debounceTimers') :
                /\ debounceTimers'[i].dueIn = DebounceDelay
                /\ debounceTimers'[i].term = trim(tradeDraft'.ticker)]_vars
    /\ [][C23_LookupIssued =>
            /\ lastLookup'.term = trim(tradeDraft.ticker)
            /\ lastLookup'.quiet >= DebounceDelay
            /\ quiet >= DebounceDelay]_vars

\* C23 witness: "ap le" was typed, then "go og" before the delay was over,
\* and the one lookup issued is for "go og"
C23_Witness ==
    /\ lastLookup.term = "go og"
    /\ tradeDraft.ticker = "go og"
    /\ ops = 2
    /\ debounceTimers = <<>>

\* the step is the answer to a getLivePrices call
C24_AnswerStep ==
    /\ Len(priceRequests') < Len(priceRequests)
    /\ lastFetch'.event = "answered"

\* C24: every answer of getLivePrices replaces the whole price map with its
\* own result: no entry of the map before it remains unless the answer has
\* it, whether or not a call made later was answered before.
C24_LastArrivalWins ==
    [][C24_AnswerStep =>
          /\ liveData' = lastFetch'.result
          /\ DOMAIN liveData' = DOMAIN lastFetch'.result
          /\ \A t \in DOMAIN liveData \ DOMAIN lastFetch'.result :
                currentPriceOf(liveData', t) = None]_vars

\* C24 witness: of two calls in flight the one made first was answered last,
\* and the map holds its prices
C24_Witness ==
    /\ lastFetch.event = "answered"
    /\ lastFetch.overtaken
    /\ lastFetch.outcome = "prices"
    /\ lastFetch.tickers = {"AAPL", "GOOGL"}
    /\ liveData = lastFetch.result
    /\ liveData["AAPL"] = Some(120)
    /\ liveData["GOOGL"] = Some(130)

\* the step ends a sync with success
C25_SyncSucceeds == syncCall # None /\ syncCall' = None /\ lastSync'.result = "synced"

C30_SameTrade(a, b) ==
    \A k \in {"id", "ticker", "entryDate", "entryPrice", "shares", "strategy",
              "notes", "status", "pnl", "isWin"} : a[k] = b[k]

\* C30: when the sheet holds what a sync of a ledger wrote, every trade of
\* that ledger having a ticker and an entry date, an import gives a ledger
\* of as many trades in the same order, each with the id, ticker, entry
\* date, entry price, shares, strategy, notes, status, pnl and isWin it had.
C30_SheetRoundTrip ==
    [][(/\ SheetImported
        /\ lastSync.result = "synced"
        /\ sheet = <<tradeHeader>> \o tradeRows(lastSync.trades)
        /\ \A i \in 1..Len(lastSync.trades) :
              lastSync.trades[i].ticker # "" /\ lastSync.trades[i].entryDate # "")
       => /\ Len(trades') = Len(lastSync.trades)
          /\ \A i \in 1..Len(lastSync.trades) :
                C30_SameTrade(trades'[i], lastSync.trades[i])]_vars

\* C30 witness: a closed loss, an open trade and a closed win have been
\* synced, and the import of the sheet has put them in the ledger again
C30_Witness ==
    /\ last.op = "handleImportFromSheets"
    /\ last.result = "imported"
    /\ lastSync.result = "synced"
    /\ last.rows = valuesGet(<<tradeHeader>> \o tradeRows(lastSync.trades))
    /\ Len(trades) = 3
    /\ trades[1].isWin = Some(FALSE) /\ trades[1].pnl = Some(0 - 100)
    /\ trades[2].status = "open" /\ trades[2].pnl = None
    /\ trades[3].isWin = Some(TRUE)
    /\ \A i \in 1..3 : C30_SameTrade(trades[i], lastSync.trades[i])

\* C26 (as specified): when a snapshot with trades is stored before the App
\* starts, no step of the startup stores an empty sequence, and when the
\* startup is over the ledger and the snapshot are the snapshot stored
\* before.
C26_StartupKeepsStoredTrades ==
    /\ [][storedBefore # <<>> => stored' # <<>>]_vars
    /\ [](startupPc = "done" /\ storedBefore # <<>> =>
             /\ trades = JSONparse(storedBefore)
             /\ stored = storedBefore)

\* a getLivePrices call goes out
C27_FetchStarts == Len(priceRequests') > Len(priceRequests)

\* C27 (as specified): a live-price fetch starts only on the mount of the
\* journal view, on a tick of the 60-second timer, on a manual refresh or
\* when the set of open trades changes, and at most one polling timer is
\* active at a time.
C27_FetchOnlyOnItsEvents ==
    /\ [][C27_FetchStarts =>
             lastFetch'.trigger \in {"mount", "tick", "refresh", "openTrades"}]_vars
    /\ [](intervals <= 1)

\* C28 (as specified): while the exit form stays open, its fields change only
\* in a step of the form itself, a user input; a step that changes the
\* application's state and not the ledger, such as the importing flag going
\* back to false, leaves them as they are.
C28_ExitFormKeepsItsFields ==
    [][(isExitModalOpen /\ isExitModalOpen' /\ trades' = trades /\ exitForm' # exitForm)
          => UNCHANGED appVarsButOps]_vars

\* the step starts an import
C29_ImportStarts == inflight' # "none" /\ inflight' # inflight

\* C29: the importing flag is true exactly while an import is in flight; an
\* import starts only while the flag is false, so at most one is in flight;
\* an import that succeeds leaves the ledger as exactly the imported set,
\* whatever was added, updated or removed meanwhile; and every import in
\* flight ends, by success or failure, with the flag false again.
C29_OneImportInFlight ==
    /\ [](isImporting <=> inflight # "none")
    /\ [][C29_ImportStarts => ~isImporting /\ inflight = "none"]_vars
    /\ [][(ImportEnds /\ last'.result = "imported") =>
             LedgerIsImportedSet /\ ~isImporting']_vars
    /\ (isImporting ~> ~isImporting)

\* C29 witness: a spreadsheet import has succeeded while the trade form was
\* open on a trade (an import starts only with no form open, so the form was
\* opened while it was in flight); the ledger no longer holds that trade
C29_Witness ==
    /\ ~isImporting /\ inflight = "none"
    /\ last.op = "handleImportFromSheets" /\ last.result = "imported"
    /\ isModalOpen /\ tradeToEdit # None
    /\ Val(tradeToEdit).id \notin IdsOf(trades)
    /\ trades # <<>>

====
